---- MODULE Spec2Model ----
(***************************************************************************)
(* Bond-data scraper: the daily run (src/script.mjs) and the BSE backfill  *)
(* run (src/unnamed/part_000) as one state machine.                        *)
(*                                                                         *)
(* Text is a sequence of one-character strings ("" is << >>).  A JS Date   *)
(* is a record [day, min]: days since 2026-01-28 and the UTC minute of     *)
(* that day.  Every await of the code is a step boundary: an action is the *)
(* continuation that runs when the awaited call settles, up to and         *)
(* including the issue of the next awaited call.                           *)
(***************************************************************************)
EXTENDS Integers, Sequences, FiniteSets, Bags, TLC

(***************************************************************************)
(* Bounds of the model.                                                    *)
(***************************************************************************)
\* number of process runs (daily or backfill) in one behaviour
MaxRuns == 1
\* number of calendar days of the backfill range that the model walks
BackfillSpan == 2
\* longest response body given to the classifier on its own
MaxBodyLen == 3
\* last day (counted from 2026-01-28) of the clock readings given to getTargetDate
MaxClockDay == 13
\* longest cell text given to the numeric fields on their own
MaxCellLen == 3

(***************************************************************************)
(* Characters and text.                                                    *)
(***************************************************************************)
BOM == "BOM"
NL == "\n"
SP == " "

\* JS WhiteSpace and LineTerminator, as String.prototype.trim and \s see them
JsWhite == {SP, NL, "\t", "\r", BOM}

RECURSIVE DropWhile(_, _)
DropWhile(s, W) ==
    IF s # << >> /\ Head(s) \in W THEN DropWhile(Tail(s), W) ELSE s

RECURSIVE DropWhileEnd(_, _)
DropWhileEnd(s, W) ==
    IF s # << >> /\ s[Len(s)] \in W
    THEN DropWhileEnd(SubSeq(s, 1, Len(s) - 1), W)
    ELSE s

\* String.prototype.trim
Trim(s) == DropWhileEnd(DropWhile(s, JsWhite), JsWhite)

\* String.prototype.startsWith
StartsWith(s, p) == Len(s) >= Len(p) /\ SubSeq(s, 1, Len(p)) = p

\* if (csvStr.charCodeAt(0) === 0xfeff) csvStr = csvStr.slice(1)
StripBOM(s) == IF s # << >> /\ Head(s) = BOM THEN Tail(s) ELSE s

\* h.replace(/\n/g, " ")
RECURSIVE ReplaceNL(_)
ReplaceNL(s) ==
    IF s = << >> THEN << >>
    ELSE <<IF Head(s) = NL THEN SP ELSE Head(s)>> \o ReplaceNL(Tail(s))

\* every white space character made a space, runs left as long as they were
RECURSIVE SpaceEachWhite(_)
SpaceEachWhite(s) ==
    IF s = << >> THEN << >>
    ELSE <<IF Head(s) \in JsWhite THEN SP ELSE Head(s)>> \o SpaceEachWhite(Tail(s))

\* .replace(/\s+/g, " ")
RECURSIVE CollapseWhite(_)
CollapseWhite(s) ==
    IF s = << >> THEN << >>
    ELSE IF Head(s) \in JsWhite
         THEN <<SP>> \o CollapseWhite(DropWhile(s, JsWhite))
         ELSE <<Head(s)>> \o CollapseWhite(Tail(s))

normalizeHeader(h) == Trim(CollapseWhite(ReplaceNL(h)))

(***************************************************************************)
(* Dates.                                                                  *)
(***************************************************************************)
\* getUTCDay of day 0 (2026-01-28, a Wednesday); 0 = Sunday
EpochDow == 3
\* 2026-01-28 is day 392 counted from 2025-01-01
EpochOffset == 392
BaseYear == 2025
\* istOffset = 5.5 h, in minutes
IstOffsetMin == 330
CutoffHour == 15
RetentionDays == 90
MinPerDay == 1440

mkDate(d, m) == [day |-> d, min |-> m]

\* new Date(t.getTime() + ms)
AddMinutes(t, m) ==
    mkDate(t.day + ((t.min + m) \div MinPerDay), (t.min + m) % MinPerDay)

\* date.setDate(date.getDate() + k): whole days, the time of day kept
AddDays(t, k) == mkDate(t.day + k, t.min)

getUTCHours(t) == t.min \div 60
getUTCDay(t) == (((t.day + EpochDow) % 7) + 7) % 7

IsLeap(y) == (y % 4 = 0 /\ y % 100 # 0) \/ y % 400 = 0
DaysInYear(y) == IF IsLeap(y) THEN 366 ELSE 365
DaysInMonth(y, m) ==
    IF m = 2 THEN (IF IsLeap(y) THEN 29 ELSE 28)
    ELSE IF m \in {4, 6, 9, 11} THEN 30 ELSE 31

\* <<year, month, day of month>> of the n-th day (from 0) counted from y-m-01
RECURSIVE CivilFrom(_, _, _)
CivilFrom(y, m, n) ==
    IF n >= DaysInMonth(y, m)
    THEN IF m = 12 THEN CivilFrom(y + 1, 1, n - DaysInMonth(y, m))
         ELSE CivilFrom(y, m + 1, n - DaysInMonth(y, m))
    ELSE <<y, m, n + 1>>

\* getUTCFullYear, getUTCMonth + 1, getUTCDate (dates from BaseYear on)
Civil(t) == CivilFrom(BaseYear, 1, t.day + EpochOffset)

DigitChars == <<"0", "1", "2", "3", "4", "5", "6", "7", "8", "9">>

\* String(n) for n >= 0
RECURSIVE Digits(_)
Digits(n) ==
    IF n < 10 THEN <<DigitChars[n + 1]>>
    ELSE Digits(n \div 10) \o <<DigitChars[(n % 10) + 1]>>

\* String(n).padStart(2, "0")
Pad2(n) == IF Len(Digits(n)) < 2 THEN <<"0">> \o Digits(n) ELSE Digits(n)

\* a rendering without padStart
formatDateBSEUnpadded(t) ==
    LET c == Civil(t) IN Digits(c[3]) \o <<"/">> \o Digits(c[2]) \o <<"/">> \o Digits(c[1])

formatDateBSE(t) ==
    LET c == Civil(t) IN Pad2(c[3]) \o <<"/">> \o Pad2(c[2]) \o <<"/">> \o Digits(c[1])

formatDateDB(t) ==
    LET c == Civil(t) IN Digits(c[1]) \o <<"-">> \o Pad2(c[2]) \o <<"-">> \o Pad2(c[3])

\* the order of PostgreSQL dates on YYYY-MM-DD text: only digits and "-" occur
CharRank(c) ==
    IF c = "-" THEN 0 ELSE CHOOSE k \in 1..10 : DigitChars[k] = c

RECURSIVE TextLess(_, _)
TextLess(a, b) ==
    IF b = << >> THEN FALSE
    ELSE IF a = << >> THEN TRUE
    ELSE IF Head(a) = Head(b) THEN TextLess(Tail(a), Tail(b))
    ELSE CharRank(Head(a)) < CharRank(Head(b))

\* a resolver whose cutoff step and weekend step exclude each other
getTargetDateShortCircuit(now) ==
    LET istTime == AddMinutes(now, IstOffsetMin)
        hour == getUTCHours(istTime)
        targetDay == getUTCDay(istTime)
    IN  IF hour < CutoffHour THEN AddDays(istTime, -1)
        ELSE IF targetDay = 0 THEN AddDays(istTime, -2)
        ELSE IF targetDay = 6 THEN AddDays(istTime, -1)
        ELSE istTime

getTargetDate(now) ==
    LET istTime == AddMinutes(now, IstOffsetMin)
        hour == getUTCHours(istTime)
        t1 == IF hour < CutoffHour THEN AddDays(istTime, -1) ELSE istTime
        targetDay == getUTCDay(t1)
    IN  IF targetDay = 0 THEN AddDays(t1, -2)
        ELSE IF targetDay = 6 THEN AddDays(t1, -1)
        ELSE t1

\* startDate .. endDate of the backfill; the model walks BackfillSpan days of it
startDate == mkDate(0, 0)
endDate == mkDate(BackfillSpan - 1, 0)

RECURSIVE WeekdaysFrom(_)
WeekdaysFrom(d) ==
    IF d.day > endDate.day THEN << >>
    ELSE (IF getUTCDay(d) # 0 /\ getUTCDay(d) # 6 THEN <<d>> ELSE << >>)
         \o WeekdaysFrom(AddDays(d, 1))

BackfillDates == WeekdaysFrom(startDate)

\* endDate of the source, 2026-02-16, in days from startDate
RangeLastDay == 19

\* a date loop that pushes every day
RECURSIVE EveryDayBetween(_, _)
EveryDayBetween(d, e) ==
    IF d.day > e.day THEN << >>
    ELSE <<d>> \o EveryDayBetween(AddDays(d, 1), e)

\* for (d = start; d <= e; d + 1 day) if (d is no Saturday or Sunday) push(d)
RECURSIVE WeekdaysBetween(_, _)
WeekdaysBetween(d, e) ==
    IF d.day > e.day THEN << >>
    ELSE (IF getUTCDay(d) # 0 /\ getUTCDay(d) # 6 THEN <<d>> ELSE << >>)
         \o WeekdaysBetween(AddDays(d, 1), e)

\* dates of the backfill script, over its whole range
DateQueue == WeekdaysBetween(startDate, mkDate(RangeLastDay, 0))

(***************************************************************************)
(* CSV parsing (csv-parse/sync with the options of the call sites).        *)
(***************************************************************************)
\* the pieces of s between occurrences of sep
RECURSIVE SplitOn(_, _)
SplitOn(s, sep) ==
    IF \A k \in 1..Len(s) : s[k] # sep THEN <<s>>
    ELSE LET k == CHOOSE j \in 1..Len(s) :
                     s[j] = sep /\ \A h \in 1..(j - 1) : s[h] # sep
         IN  <<SubSeq(s, 1, k - 1)>> \o SplitOn(SubSeq(s, k + 1, Len(s)), sep)

\* trim: true (the parser trims spaces and tabs around a field)
TrimField(f) == DropWhileEnd(DropWhile(f, {SP, "\t", "\r"}), {SP, "\t", "\r"})

\* skip_empty_lines: true
NonEmptyLines(s) == SelectSeq(SplitOn(s, NL), LAMBDA l : l # << >>)

Fields(line) ==
    LET fs == SplitOn(line, ",") IN [k \in 1..Len(fs) |-> TrimField(fs[k])]

\* columns: (headers) => headers.map(normalizeHeader)
Columns(line) ==
    LET fs == Fields(line) IN [k \in 1..Len(fs) |-> normalizeHeader(fs[k])]

MinOf(a, b) == IF a < b THEN a ELSE b

\* one object per data line: relax_column_count keeps short and long lines
MakeRecord(cols, fs) ==
    LET n == MinOf(Len(cols), Len(fs))
    IN  [c \in {cols[k] : k \in 1..n} |->
            fs[CHOOSE k \in 1..n :
                   cols[k] = c /\ \A h \in (k + 1)..n : cols[h] # c]]

\* parseCSVLib(csvStr, {columns, skip_empty_lines, relax_*, trim, bom: true})
parseCSVLib(text) ==
    LET ls == NonEmptyLines(StripBOM(text))
    IN  IF ls = << >> THEN << >>
        ELSE [k \in 1..(Len(ls) - 1) |->
                 MakeRecord(Columns(ls[1]), Fields(ls[k + 1]))]

KeyExchange == <<"e", "x", "c", "h", "a", "n", "g", "e">>
TextNSE == <<"N", "S", "E">>

\* { ...r, exchange }
WithExchange(r, ex) ==
    [c \in DOMAIN r \cup {KeyExchange} |-> IF c = KeyExchange THEN ex ELSE r[c]]

parseCSV(csvString, ex) ==
    LET recs == parseCSVLib(StripBOM(csvString))
    IN  [k \in 1..Len(recs) |-> WithExchange(recs[k], ex)]

(***************************************************************************)
(* Numeric cells: parseFloat, parseInt and the fields built from them.     *)
(***************************************************************************)
\* the rupee sign, one character
RUPEE == "RUPEE"

\* the column names the records maps read
ColCouponRate ==
    <<"C", "O", "U", "P", "O", "N", " ", "R", "A", "T", "E">>
ColLtp ==
    <<"L", "T", "P">>
ColValueCrores ==
    <<"V", "A", "L", "U", "E", " ", "(", RUPEE, " ", "C", "r", "o", "r", "e",
      "s", ")">>
ColVolumeShares ==
    <<"V", "O", "L", "U", "M", "E", " ", "(", "S", "h", "a", "r", "e", "s",
      ")">>
ColFaceValue ==
    <<"F", "A", "C", "E", " ", "V", "A", "L", "U", "E">>
ColClosePrice ==
    <<"C", "l", "o", "s", "e", " ", "P", "r", "i", "c", "e">>
ColTotalTurnover ==
    <<"T", "o", "t", "a", "l", " ", "T", "r", "a", "d", "e", " ", "T", "u",
      "r", "n", "o", "v", "e", "r", " ", "(", "R", "s", ".", " ", "L", "a",
      "k", "h", "s", ")">>
ColTurnoverInLakhs ==
    <<"T", "u", "r", "n", "o", "v", "e", "r", " ", "i", "n", " ", "L", "a",
      "k", "h", "s">>
ColTurnoverRsLacs ==
    <<"T", "u", "r", "n", "o", "v", "e", "r", " ", "(", "R", "s", " ", "L",
      "a", "c", "s", ")">>
ColTotalVolume ==
    <<"T", "o", "t", "a", "l", " ", "T", "r", "a", "d", "e", " ", "V", "o",
      "l", "u", "m", "e">>
ColNoOfTradesDot ==
    <<"N", "o", ".", "O", "f", " ", "T", "r", "a", "d", "e", "s">>
ColNoOfTrades ==
    <<"N", "o", " ", "O", "f", " ", "T", "r", "a", "d", "e", "s">>

ColSymbol ==
    <<"S", "Y", "M", "B", "O", "L">>
ColMaturityDate ==
    <<"M", "A", "T", "U", "R", "I", "T", "Y", " ", "D", "A", "T", "E">>
ColBondType ==
    <<"B", "O", "N", "D", " ", "T", "Y", "P", "E">>
ColCreditRating ==
    <<"C", "R", "E", "D", "I", "T", " ", "R", "A", "T", "I", "N", "G">>
ColScripName ==
    <<"S", "c", "r", "i", "p", " ", "N", "a", "m", "e">>
ColSecurityCode ==
    <<"S", "e", "c", "u", "r", "i", "t", "y", " ", "C", "o", "d", "e">>
ColScripCode ==
    <<"S", "c", "r", "i", "p", " ", "C", "o", "d", "e">>

\* a field value: null, NaN, or the number written (-)int.frac
NullValue == [kind |-> "null", neg |-> FALSE, int |-> 0, frac |-> << >>]
NaNValue == [kind |-> "NaN", neg |-> FALSE, int |-> 0, frac |-> << >>]
NumValue(neg, int, frac) ==
    [kind |-> "num", neg |-> neg, int |-> int, frac |-> DropWhileEnd(frac, {"0"})]

DigitSet == {DigitChars[k] : k \in 1..10}

\* the longest prefix of s made of digits
RECURSIVE DigitPrefix(_)
DigitPrefix(s) ==
    IF s # << >> /\ Head(s) \in DigitSet
    THEN <<Head(s)>> \o DigitPrefix(Tail(s))
    ELSE << >>

\* the number a text of digits denotes
RECURSIVE DigitsValue(_)
DigitsValue(ds) ==
    IF ds = << >> THEN 0
    ELSE 10 * DigitsValue(SubSeq(ds, 1, Len(ds) - 1))
         + ((CHOOSE k \in 1..10 : DigitChars[k] = ds[Len(ds)]) - 1)

\* s.replace(/,/g, "")
RemoveCommas(s) == SelectSeq(s, LAMBDA c : c # ",")

\* parseFloat(s): white space skipped, an optional sign, then the longest
\* prefix digits[.digits] or .digits; NaN when there is none (texts without
\* exponent and without "Infinity")
parseFloat(s) ==
    LET t == DropWhile(s, JsWhite)
        neg == t # << >> /\ Head(t) = "-"
        u == IF t # << >> /\ Head(t) \in {"-", "+"} THEN Tail(t) ELSE t
        ip == DigitPrefix(u)
        v == SubSeq(u, Len(ip) + 1, Len(u))
        fp == IF v # << >> /\ Head(v) = "." THEN DigitPrefix(Tail(v)) ELSE << >>
    IN  IF ip = << >> /\ fp = << >> THEN NaNValue
        ELSE NumValue(neg, DigitsValue(ip), fp)

\* parseInt(s) and parseInt(s, 10): white space skipped, an optional sign, then
\* the longest prefix of digits; NaN when there is none (texts without "0x")
parseInt(s) ==
    LET t == DropWhile(s, JsWhite)
        neg == t # << >> /\ Head(t) = "-"
        u == IF t # << >> /\ Head(t) \in {"-", "+"} THEN Tail(t) ELSE t
        ip == DigitPrefix(u)
    IN  IF ip = << >> THEN NaNValue ELSE NumValue(neg, DigitsValue(ip), << >>)

\* natural numbers of any size, as their digits in base 10000, least first
RECURSIVE BigOfNat(_)
BigOfNat(n) ==
    IF n = 0 THEN << >> ELSE <<n % 10000>> \o BigOfNat(n \div 10000)

\* a * k + c, for k up to 10000
RECURSIVE BigTimesPlus(_, _, _)
BigTimesPlus(a, k, c) ==
    IF a = << >> THEN BigOfNat(c)
    ELSE LET t == a[1] * k + c
         IN  <<t % 10000>> \o BigTimesPlus(Tail(a), k, t \div 10000)

\* a * 2^n
RECURSIVE BigShift(_, _)
BigShift(a, n) ==
    IF n = 0 THEN a ELSE BigShift(BigTimesPlus(a, 2, 0), n - 1)

\* quotient and remainder of a by k, for k up to 10000
RECURSIVE BigDivMod(_, _)
BigDivMod(a, k) ==
    IF a = << >> THEN [q |-> << >>, r |-> 0]
    ELSE LET hi == BigDivMod(Tail(a), k)
             t == hi.r * 10000 + a[1]
         IN  [q |-> DropWhileEnd(<<t \div k>> \o hi.q, {0}), r |-> t % k]

RECURSIVE BigLess(_, _)
BigLess(a, b) ==
    IF Len(a) # Len(b) THEN Len(a) < Len(b)
    ELSE IF a = << >> THEN FALSE
    ELSE IF a[Len(a)] # b[Len(b)] THEN a[Len(a)] < b[Len(b)]
    ELSE BigLess(SubSeq(a, 1, Len(a) - 1), SubSeq(b, 1, Len(b) - 1))

\* a / k rounded to the nearest integer, a tie to the even one
BigRound(a, k) ==
    LET d == BigDivMod(a, k)
        odd == d.q # << >> /\ d.q[1] % 2 = 1
    IN  IF 2 * d.r > k \/ (2 * d.r = k /\ odd) THEN BigTimesPlus(d.q, 1, 1) ELSE d.q

\* 2^52 and 2^53: a double has a significand of 53 bits
SignificandLow == BigShift(<<1>>, 52)
SignificandHigh == BigShift(<<1>>, 53)

\* the double nearest (a / k) * 2^-e, as significand m and exponent e of
\* m * 2^-e (the numbers here are far from the subnormal and the infinite)
RECURSIVE RoundDouble(_, _, _)
RoundDouble(a, k, e) ==
    IF a = << >> THEN [m |-> << >>, e |-> 0]
    ELSE IF BigLess(BigDivMod(a, k).q, SignificandLow)
    THEN RoundDouble(BigTimesPlus(a, 2, 0), k, e + 1)
    ELSE IF ~BigLess(BigDivMod(a, k).q, SignificandHigh)
    THEN RoundDouble(a, 2 * k, e - 1)
    ELSE [m |-> BigRound(a, k), e |-> e]

RECURSIVE PowerOfTen(_)
PowerOfTen(n) == IF n = 0 THEN 1 ELSE 10 * PowerOfTen(n - 1)

\* the double a decimal text denotes (what parseFloat returns): the nearest
\* one to int.frac, for fractions of up to four digits
DoubleOf(v) ==
    RoundDouble(BigOfNat(v.int * PowerOfTen(Len(v.frac)) + DigitsValue(v.frac)),
                PowerOfTen(Len(v.frac)), 0)

\* x * n in double arithmetic: the exact product, rounded
DoubleTimes(x, n) == RoundDouble(BigTimesPlus(x.m, n, 0), 1, x.e)

DoubleLess(x, y) ==
    IF x.e >= y.e THEN BigLess(x.m, BigShift(y.m, x.e - y.e))
    ELSE BigLess(BigShift(x.m, y.e - x.e), y.m)

\* v * 100 (NaN * 100 is NaN): the product of the doubles. A value of kind
\* "num" is the double nearest the decimal int.frac, which is how the number
\* is written out; kind "below" or "above" is a double next to that one,
\* smaller or larger in magnitude
TimesHundred(v) ==
    IF v.kind # "num" THEN v
    ELSE LET f == v.frac \o <<"0", "0">>
             exact == NumValue(v.neg, 100 * v.int + DigitsValue(SubSeq(f, 1, 2)),
                               SubSeq(f, 3, Len(f)))
             p == DoubleTimes(DoubleOf(v), 100)
             q == DoubleOf(exact)
         IN  IF DoubleLess(p, q) THEN [exact EXCEPT !.kind = "below"]
             ELSE IF DoubleLess(q, p) THEN [exact EXCEPT !.kind = "above"]
             ELSE exact

\* r[col] is truthy: the column is there and its cell is not ""
Truthy(r, col) == col \in DOMAIN r /\ r[col] # << >>

\* the last truthy column instead of the first
FirstTruthyLast(r, cs) ==
    LET ok == {k \in 1..Len(cs) : Truthy(r, cs[k])}
    IN  IF ok = {} THEN << >>
        ELSE <<cs[CHOOSE k \in ok : \A h \in ok : k >= h]>>

\* r[c1] || r[c2] || ... || null, as the first truthy column (or none)
FirstTruthy(r, cs) ==
    LET ok == {k \in 1..Len(cs) : Truthy(r, cs[k])}
    IN  IF ok = {} THEN << >>
        ELSE <<cs[CHOOSE k \in ok : \A h \in ok : k <= h]>>

\* x ? parseFloat(String(x).replace(/,/g, "")) : null
FloatOrNull(r, cs) ==
    IF FirstTruthy(r, cs) = << >> THEN NullValue
    ELSE parseFloat(RemoveCommas(r[FirstTruthy(r, cs)[1]]))

\* x ? parseInt(String(x).replace(/,/g, "")) : null
IntOrNull(r, cs) ==
    IF FirstTruthy(r, cs) = << >> THEN NullValue
    ELSE parseInt(RemoveCommas(r[FirstTruthy(r, cs)[1]]))

\* a text field: null, or the text of a cell
NullText == [kind |-> "null", text |-> << >>]
TextValue(s) == [kind |-> "text", text |-> s]

\* r[c1] || r[c2] || ... || null
TextOrNull(r, cs) ==
    IF FirstTruthy(r, cs) = << >> THEN NullText
    ELSE TextValue(r[FirstTruthy(r, cs)[1]])

\* !r[col] || r[col] === "-" ? null : r[col]
TextUnlessDash(r, col) ==
    IF ~Truthy(r, col) \/ r[col] = <<"-">> THEN NullText ELSE TextValue(r[col])

\* the row storeNSEData builds of record r
rowNSE(r, tradeDate) ==
    [trade_date |-> tradeDate, exchange |-> "NSE",
     security_code |-> TextOrNull(r, <<ColSymbol>>),
     issuer_name |-> NullText,
     coupon_rate |-> FloatOrNull(r, <<ColCouponRate>>),
     maturity_date |-> TextUnlessDash(r, ColMaturityDate),
     ltp |-> FloatOrNull(r, <<ColLtp>>),
     turnover_rs_lacs |-> TimesHundred(FloatOrNull(r, <<ColValueCrores>>)),
     no_of_trades |-> IntOrNull(r, <<ColVolumeShares>>),
     bond_type |-> TextOrNull(r, <<ColBondType>>),
     face_value |-> FloatOrNull(r, <<ColFaceValue>>),
     credit_rating |-> TextOrNull(r, <<ColCreditRating>>),
     raw_data |-> r]

\* the row of storeBSEData with the price and the turnover columns exchanged
rowBSESwapped(r, tradeDate) ==
    [trade_date |-> tradeDate, exchange |-> "BSE",
     security_code |-> TextOrNull(r, <<ColScripName, ColSecurityCode, ColScripCode>>),
     issuer_name |-> NullText,
     coupon_rate |-> NullValue,
     maturity_date |-> NullText,
     ltp |-> FloatOrNull(r, <<ColTotalTurnover, ColTurnoverInLakhs, ColTurnoverRsLacs>>),
     turnover_rs_lacs |-> FloatOrNull(r, <<ColClosePrice, ColLtp>>),
     no_of_trades |->
         IntOrNull(r, <<ColTotalVolume, ColNoOfTradesDot, ColNoOfTrades, ColNoOfTrades>>),
     bond_type |-> NullText,
     face_value |-> NullValue,
     credit_rating |-> NullText,
     raw_data |-> r]

\* the row storeBSEData builds of record r
rowBSE(r, tradeDate) ==
    [trade_date |-> tradeDate, exchange |-> "BSE",
     security_code |-> TextOrNull(r, <<ColScripName, ColSecurityCode, ColScripCode>>),
     issuer_name |-> NullText,
     coupon_rate |-> NullValue,
     maturity_date |-> NullText,
     ltp |-> FloatOrNull(r, <<ColClosePrice, ColLtp>>),
     turnover_rs_lacs |->
         FloatOrNull(r, <<ColTotalTurnover, ColTurnoverInLakhs, ColTurnoverRsLacs>>),
     no_of_trades |->
         IntOrNull(r, <<ColTotalVolume, ColNoOfTradesDot, ColNoOfTrades, ColNoOfTrades>>),
     bond_type |-> NullText,
     face_value |-> NullValue,
     credit_rating |-> NullText,
     raw_data |-> r]

\* the row the backfill loop builds of record r
rowBackfill(r, dbDate) ==
    [trade_date |-> dbDate, exchange |-> "BSE",
     security_code |-> TextOrNull(r, <<ColScripName>>),
     issuer_name |-> NullText,
     coupon_rate |-> NullValue,
     maturity_date |-> NullText,
     ltp |-> FloatOrNull(r, <<ColClosePrice>>),
     turnover_rs_lacs |-> FloatOrNull(r, <<ColTotalTurnover>>),
     no_of_trades |-> IntOrNull(r, <<ColTotalVolume>>),
     bond_type |-> NullText,
     face_value |-> NullValue,
     credit_rating |-> NullText,
     raw_data |-> r]

(***************************************************************************)
(* The stored table bond_trades: a bag of rows.                            *)
(***************************************************************************)
RECURSIVE BagOfSeq(_)
BagOfSeq(s) ==
    IF s = << >> THEN EmptyBag ELSE SetToBag({Head(s)}) (+) BagOfSeq(Tail(s))

\* the rows of (trade_date, exchange) in table t
RowsOf(t, d, ex) ==
    LET keep == {r \in DOMAIN t : r.trade_date = d /\ r.exchange = ex}
    IN  [r \in keep |-> t[r]]

\* a delete by the date alone, whatever the exchange
DeleteEqDate(t, d, ex) ==
    LET keep == {r \in DOMAIN t : r.trade_date # d}
    IN  [r \in keep |-> t[r]]

\* .delete().eq("trade_date", d).eq("exchange", ex), when it succeeds
DeleteEq(t, d, ex) ==
    LET keep == {r \in DOMAIN t : ~(r.trade_date = d /\ r.exchange = ex)}
    IN  [r \in keep |-> t[r]]

\* .delete().lt("trade_date", cutoff), when it succeeds
DeleteLt(t, cutoff) ==
    LET keep == {r \in DOMAIN t : ~TextLess(r.trade_date, cutoff)}
    IN  [r \in keep |-> t[r]]

\* .insert(rows), when it succeeds
InsertRows(t, rows) == t (+) BagOfSeq(rows)

\* the records map of storeNSEData
dbRecordsNSE(csvData, tradeDate) ==
    LET recs == parseCSV(csvData, TextNSE)
    IN  [k \in 1..Len(recs) |->
            rowNSE(recs[k], tradeDate)]

\* the records map of storeBSEData
dbRecordsBSE(csvStr, tradeDate) ==
    LET recs == parseCSVLib(csvStr)
    IN  [k \in 1..Len(recs) |->
            rowBSE(recs[k], tradeDate)]

\* the records map of the backfill loop body
dbRecordsBackfill(csvStr, dbDate) ==
    LET recs == parseCSVLib(csvStr)
    IN  [k \in 1..Len(recs) |->
            rowBackfill(recs[k], dbDate)]

(***************************************************************************)
(* The remote servers and the collaborators, as the inputs of the steps.   *)
(***************************************************************************)
HiddenIds == <<"__VIEWSTATE", "__VIEWSTATEGENERATOR", "__EVENTVALIDATION">>

\* the session of the current run and date, as the remote server knows it
SessionOf(r, k) == <<r, k>>

\* the opaque value the server puts in hidden field f of the page of generation
\* gen of session sess: fresh for every page and field
TokenValue(sess, gen, f) == <<gen, sess[1], sess[2], f>>

\* the name=value text the server sets as the cookie of session sess
CookieValue(sess) == <<0, sess[1], sess[2]>>

\* an HTML page of the search form: the hidden fields present, and whether the
\* results container (ContentPlaceHolder1_divCT1) is in it
Page(sess, gen, present, marker) ==
    [hidden |-> [f \in present |-> TokenValue(sess, gen, f)], marker |-> marker]

\* the sets of hidden fields a page may carry: all three, one missing, none
PresentSets == {{1, 2, 3}, {2, 3}, {1, 3}, {1, 2}, {}}

\* the pages the GET may return (the search form, before any search)
GetPages(sess) == {Page(sess, 1, present, FALSE) : present \in PresentSets}

\* the pages the submit POST may return: a results page, or a page without results
SubmitPages(sess) ==
    {Page(sess, 2, present, TRUE) : present \in PresentSets}
    \cup {Page(sess, 2, {1, 2, 3}, FALSE)}

\* root.querySelector("#id")?.getAttribute("value") || ""
HiddenValue(page, f) == IF f \in DOMAIN page.hidden THEN page.hidden[f] ELSE << >>

extractFormFields(page) ==
    [viewstate |-> HiddenValue(page, 1),
     viewstateGenerator |-> HiddenValue(page, 2),
     eventValidation |-> HiddenValue(page, 3)]

\* response.headers["set-cookie"]?.map(...).join("; ") || ""
extractCookies(resp) == IF resp.setCookie THEN resp.cookie ELSE << >>

NoFields == [viewstate |-> << >>, viewstateGenerator |-> << >>, eventValidation |-> << >>]

\* outcomes of makeRequest: the promise rejects, or resolves with status 200 or
\* with another status (503)
GetOutcomes(sess) ==
    {[kind |-> "error"]} \cup
    {[kind |-> "resp", status |-> 503, setCookie |-> FALSE, cookie |-> CookieValue(sess),
      page |-> Page(sess, 1, {}, FALSE)]} \cup
    {[kind |-> "resp", status |-> 200, setCookie |-> sc, cookie |-> CookieValue(sess),
      page |-> pg] :
        sc \in BOOLEAN, pg \in GetPages(sess)}

SubmitOutcomes(sess) ==
    {[kind |-> "error"]} \cup
    {[kind |-> "resp", status |-> 503, page |-> Page(sess, 2, {}, FALSE)]} \cup
    {[kind |-> "resp", status |-> 200, page |-> pg] : pg \in SubmitPages(sess)}

\* response bodies of the data requests
BodyEmpty == << >>
BodyHtml == <<NL, "<", "!", "D">>
BodyHeaderOnly == <<"S">>
BodyTwoRows == <<BOM, "S", ",", "P", NL, NL, "x", ",", "1", NL, "y">>
Bodies == {BodyEmpty, BodyHtml, BodyHeaderOnly, BodyTwoRows}

DataOutcomes ==
    {[kind |-> "error"]} \cup
    {[kind |-> "resp", status |-> 503, body |-> BodyHtml]} \cup
    {[kind |-> "resp", status |-> 200, body |-> b] : b \in Bodies}

\* a row an earlier run stored under (day d, exchange ex)
OldRow(d, ex) ==
    IF ex = "NSE"
    THEN rowNSE(WithExchange(<<"S">> :> <<"o">>, TextNSE), formatDateDB(mkDate(d, 0)))
    ELSE rowBSE(<<"S">> :> <<"o">>, formatDateDB(mkDate(d, 0)))

\* the table before the first run of a behaviour: empty, or one row of an
\* earlier run under each key the runs of the model write to
PriorStores ==
    {EmptyBag,
     SetToBag({OldRow(d, ex) : d \in {0, 1}, ex \in {"NSE", "BSE"}})}

\* the instants at which a daily run may start (UTC): 2026-01-29 just before the
\* 15:00 IST cutoff, and a day past the retention period of that day's rows
NowSet == {mkDate(1, 569), mkDate(1 + RetentionDays + 1, 570)}

DateLeq(a, b) == a.day < b.day \/ (a.day = b.day /\ a.min <= b.min)

(***************************************************************************)
(* Error messages.                                                         *)
(***************************************************************************)
Null == "null"
MsgTransport == "socket hang up"
MsgNseStatus == "NSE API returned status code: 503"
MsgNoNse == "No NSE records to store"
MsgGetStatus == "GET returned status 503"
MsgNoViewstate == "Failed to extract viewstate parameters"
MsgSubmitStatus == "BSE submit POST returned status code: 503"
MsgNoBond == "No bond data found in BSE response"
MsgNoViewstate2 == "Failed to extract viewstate from search response"
MsgDownloadStatus == "BSE download POST returned status code: 503"
MsgHtml == "No bond data found in BSE response (HTML returned instead of CSV)"
MsgNoBse == "No BSE records to store"
MsgDb == "db error"
MsgDbBackfill == "DB insert failed: db error"

(***************************************************************************)
(* State.                                                                  *)
(***************************************************************************)
VARIABLES
    run,        \* number of process runs started
    mode,       \* "daily" or "backfill": the script of the current run
    now,        \* the clock at the start of the latest daily run
    pc,         \* the await the current run is suspended at, or "idle"
    targetDate, \* main's targetDate (daily) or the loop's date (backfill)
    di,         \* index of the loop's date in the backfill queue
    cookies, fields1, fields2,  \* the locals of the BSE fetch in progress
    reqLog,     \* the HTTP requests issued by the current fetch, in order
    issued,     \* the responses the current fetch received, in order
    dbRecords,  \* the batch of the current store call
    dbLog,      \* the storage calls issued by the current store call, in order
    oldRows,    \* the rows under the key when the current store call began
    store,      \* the table bond_trades
    results,    \* main's results (daily)
    totals,     \* totalRecords, processedDates, skippedDates (backfill)
    ended,      \* how each source's pipeline of this run (date) ended
    sent,       \* the notification sends issued in this run
    saved,      \* the diagnostic artifacts stored in this run
    exitCode,   \* how the latest run ended
    body,       \* classifier alone: the response body under classification
    verdict     \* classifier alone: what each variant made of body

vars == <<run, mode, now, pc, targetDate, di, cookies, fields1, fields2, reqLog,
          issued, dbRecords, dbLog, oldRows, store, results, totals, ended, sent,
          saved, exitCode, body, verdict>>

metaVars == <<run, mode, now, targetDate, di>>
localVars == <<cookies, fields1, fields2>>
logVars == <<reqLog, issued>>
syncVars == <<dbRecords, dbLog, oldRows>>
outVars == <<results, totals, sent, saved, exitCode>>
pureVars == <<body, verdict>>

\* kind: what happened; step: where; as: what the run made of it
NoEnd == [kind |-> "none", step |-> "none", as |-> "none"]
EndOf(kind, step, as) == [kind |-> kind, step |-> step, as |-> as]

InitResults ==
    [nse |-> [success |-> FALSE, count |-> 0, error |-> Null],
     bse |-> [success |-> FALSE, count |-> 0, error |-> Null],
     cleanup |-> [count |-> 0]]

InitTotals == [totalRecords |-> 0, processedDates |-> 0, skippedDates |-> 0]

InitEnded == [nse |-> NoEnd, bse |-> NoEnd, cleanup |-> "none"]

NoVerdict == [variant |-> "none", class |-> "none", text |-> << >>]

InitProcess ==
    /\ run = 0
    /\ mode = "daily"
    /\ now = mkDate(0, 0)
    /\ pc = "idle"
    /\ targetDate = mkDate(0, 0)
    /\ di = 0
    /\ cookies = << >>
    /\ fields1 = NoFields
    /\ fields2 = NoFields
    /\ reqLog = << >>
    /\ issued = << >>
    /\ dbRecords = << >>
    /\ dbLog = << >>
    /\ oldRows = EmptyBag
    /\ results = InitResults
    /\ totals = InitTotals
    /\ ended = InitEnded
    /\ sent = << >>
    /\ saved = << >>
    /\ exitCode = "none"

Init ==
    /\ InitProcess
    /\ store \in PriorStores
    /\ body = << >>
    /\ verdict = NoVerdict

(***************************************************************************)
(* Requests and storage calls.                                             *)
(***************************************************************************)
EmptyForm ==
    [EVENTTARGET |-> << >>, VIEWSTATE |-> << >>, VIEWSTATEGENERATOR |-> << >>,
     EVENTVALIDATION |-> << >>, hidFDate |-> << >>, txtFromDate |-> << >>,
     txtTodate |-> << >>, btnSubmit |-> << >>, hidCurrentDate |-> << >>]

TextSubmit == <<"S", "u", "b", "m", "i", "t">>
TextImgDownload == <<"i", "m", "g", "D", "o", "w", "n", "l", "o", "a", "d">>

\* the form body of the search submission
submitData(fields, dateStr) ==
    [EVENTTARGET |-> << >>,
     VIEWSTATE |-> fields.viewstate,
     VIEWSTATEGENERATOR |-> fields.viewstateGenerator,
     EVENTVALIDATION |-> fields.eventValidation,
     hidFDate |-> << >>,
     txtFromDate |-> dateStr,
     txtTodate |-> dateStr,
     hidCurrentDate |-> << >>,
     btnSubmit |-> TextSubmit]

\* an export form that replays the tokens of the first page
downloadDataStale(fields, dateStr) ==
    [EVENTTARGET |-> TextImgDownload,
     VIEWSTATE |-> fields1.viewstate,
     VIEWSTATEGENERATOR |-> fields1.viewstateGenerator,
     EVENTVALIDATION |-> fields1.eventValidation,
     hidFDate |-> << >>,
     txtFromDate |-> dateStr,
     txtTodate |-> dateStr,
     hidCurrentDate |-> << >>,
     btnSubmit |-> << >>]

\* the form body of the export request
downloadData(fields, dateStr) ==
    [EVENTTARGET |-> TextImgDownload,
     VIEWSTATE |-> fields.viewstate,
     VIEWSTATEGENERATOR |-> fields.viewstateGenerator,
     EVENTVALIDATION |-> fields.eventValidation,
     hidFDate |-> << >>,
     txtFromDate |-> dateStr,
     txtTodate |-> dateStr,
     hidCurrentDate |-> << >>,
     btnSubmit |-> << >>]

Request(method, step, form, cookie) ==
    [method |-> method, step |-> step, form |-> form, cookie |-> cookie]

DbCall(op, d, ex, rows) == [op |-> op, trade_date |-> d, exchange |-> ex, rows |-> rows]

\* supabase.from("bond_trades").delete().eq("trade_date", d).eq("exchange", ex)
DeleteCall(d, ex) == DbCall("delete", d, ex, << >>)

\* an insert of the first row of the batch only
InsertCallFirstRow(d, ex, rows) == DbCall("insert", d, ex, SubSeq(rows, 1, 1))

\* supabase.from("bond_trades").insert(dbRecords)
InsertCall(d, ex, rows) == DbCall("insert", d, ex, rows)

\* a store call up to its first await: the delete is issued
BeginSync(rows, d, ex) ==
    /\ dbRecords' = rows
    /\ dbLog' = <<DeleteCall(d, ex)>>
    /\ oldRows' = RowsOf(store, d, ex)

\* the delete settles (its result is not looked at) and the insert is issued
DeleteSettles(d, ex) ==
    /\ \E ok \in BOOLEAN :
        store' = IF ok THEN DeleteEq(store, d, ex) ELSE store
    /\ dbLog' = Append(dbLog, InsertCall(d, ex, dbRecords))
    /\ UNCHANGED <<dbRecords, oldRows>>

ResetSync ==
    /\ dbRecords' = << >>
    /\ dbLog' = << >>
    /\ oldRows' = EmptyBag

ResetLocals ==
    /\ cookies' = << >>
    /\ fields1' = NoFields
    /\ fields2' = NoFields

\* const body = response.body.trim(); body.startsWith("<!") || ... || body.startsWith("<")
IsHtmlBody(rawBody) ==
    LET b == Trim(rawBody)
    IN  \/ StartsWith(b, <<"<", "!">>)
        \/ StartsWith(b, <<"<", "h", "t", "m", "l">>)
        \/ StartsWith(b, <<"<">>)

\* daily: the tail of fetchBSEData and the head of storeBSEData
classifyDaily(rawBody) ==
    IF IsHtmlBody(rawBody)
    THEN [variant |-> "daily", class |-> "NoData", text |-> << >>]
    ELSE [variant |-> "daily", class |-> "DataPayload", text |-> StripBOM(rawBody)]

\* backfill: the tail of fetchBSECSV and the head of the loop body
classifyBackfill(rawBody) ==
    IF IsHtmlBody(rawBody) \/ rawBody = << >>
    THEN [variant |-> "backfill", class |-> "NoData", text |-> << >>]
    ELSE [variant |-> "backfill", class |-> "DataPayload", text |-> StripBOM(rawBody)]

(***************************************************************************)
(* Daily run: src/script.mjs main.                                         *)
(***************************************************************************)
\* main up to its first await: the request of fetchNSEData
StartDaily ==
    /\ pc = "idle"
    /\ run < MaxRuns
    /\ \E t \in NowSet :
        /\ DateLeq(now, t)
        /\ now' = t
        /\ targetDate' = getTargetDate(t)
    /\ run' = run + 1
    /\ mode' = "daily"
    /\ di' = 0
    /\ ResetLocals
    /\ ResetSync
    /\ reqLog' = <<Request("GET", "nse", EmptyForm, << >>)>>
    /\ issued' = << >>
    /\ results' = InitResults
    /\ totals' = InitTotals
    /\ ended' = InitEnded
    /\ sent' = << >>
    /\ saved' = << >>
    /\ exitCode' = "running"
    /\ pc' = "nse_get"
    /\ UNCHANGED <<store, pureVars>>

\* a BSE GET issued next to the request that is already out
IssueBseGetOverlapping ==
    /\ ResetLocals
    /\ reqLog' = Append(reqLog, Request("GET", "get", EmptyForm, << >>))
    /\ issued' = << >>
    /\ pc' = "bse_get"

\* fetchBSEData up to its first await: the GET of the search page
IssueBseGet ==
    /\ ResetLocals
    /\ reqLog' = <<Request("GET", "get", EmptyForm, << >>)>>
    /\ issued' = << >>
    /\ pc' = "bse_get"

\* a catch of the NSE block that ends the process
NseFailAbort(kind, step, msg) ==
    /\ results' = [results EXCEPT !.nse.error = msg]
    /\ ended' = [ended EXCEPT !.nse = EndOf(kind, step, "error")]
    /\ exitCode' = "exit1"
    /\ pc' = "idle"
    /\ UNCHANGED <<metaVars, localVars, logVars, syncVars, store, totals, sent, saved,
                   pureVars>>

\* the catch of the NSE block, then the BSE block
NseFail(kind, step, msg) ==
    /\ results' = [results EXCEPT !.nse.error = msg]
    /\ ended' = [ended EXCEPT !.nse = EndOf(kind, step, "error")]
    /\ IssueBseGet
    /\ UNCHANGED <<metaVars, syncVars, store, totals, sent, saved, exitCode, pureVars>>

\* fetchNSEData's response, then storeNSEData up to its delete
NseResponse ==
    /\ pc = "nse_get"
    /\ \E out \in DataOutcomes :
        LET tradeDateStr == formatDateDB(targetDate)
            recs == dbRecordsNSE(out.body, tradeDateStr)
        IN  IF out.kind = "error" THEN NseFail("transport", "get", MsgTransport)
            ELSE IF out.status # 200 THEN NseFail("status", "get", MsgNseStatus)
            ELSE IF Len(recs) = 0 THEN NseFail("empty", "parse", MsgNoNse)
            ELSE /\ BeginSync(recs, tradeDateStr, "NSE")
                 /\ issued' = Append(issued, out)
                 /\ pc' = "nse_delete"
                 /\ UNCHANGED <<metaVars, localVars, reqLog, store, results, totals,
                                ended, sent, saved, exitCode, pureVars>>

\* storeNSEData between its two awaits
NseDeleteDone ==
    /\ pc = "nse_delete"
    /\ DeleteSettles(formatDateDB(targetDate), "NSE")
    /\ pc' = "nse_insert"
    /\ UNCHANGED <<metaVars, localVars, logVars, outVars, ended, pureVars>>

\* storeNSEData: the insert settles; back in main, then the BSE block
NseInsertDone ==
    /\ pc = "nse_insert"
    /\ \E ok \in BOOLEAN :
        IF ok
        THEN /\ store' = InsertRows(store, dbRecords)
             /\ results' = [results EXCEPT !.nse.success = TRUE,
                                           !.nse.count = Len(dbRecords)]
             /\ ended' = [ended EXCEPT !.nse = EndOf("ok", "insert", "success")]
        ELSE /\ store' = store
             /\ results' = [results EXCEPT !.nse.error = MsgDb]
             /\ ended' = [ended EXCEPT !.nse = EndOf("storage", "insert", "error")]
    /\ IssueBseGet
    /\ UNCHANGED <<metaVars, syncVars, totals, sent, saved, exitCode, pureVars>>

\* the catch of the BSE block, then cleanupOldData up to its delete
BseFail(kind, step, msg) ==
    /\ results' = [results EXCEPT !.bse.error = msg]
    /\ ended' = [ended EXCEPT !.bse = EndOf(kind, step, "error")]
    /\ ResetLocals
    /\ pc' = "cleanup"
    /\ UNCHANGED <<metaVars, store, totals, sent, saved, exitCode, pureVars>>

\* fetchBSEData step 1 settles; step 2 is issued
BseGetResponse ==
    /\ pc = "bse_get"
    /\ ResetSync
    /\ \E out \in GetOutcomes(SessionOf(run, di)) :
        IF out.kind = "error"
        THEN BseFail("transport", "get", MsgTransport) /\ UNCHANGED logVars
        ELSE IF out.status # 200
        THEN BseFail("status", "get", MsgGetStatus) /\ UNCHANGED logVars
        ELSE LET f1 == extractFormFields(out.page)
                 ck == extractCookies(out)
             IN  /\ issued' = Append(issued, out)
                 /\ IF f1.viewstate = << >> \/ f1.viewstateGenerator = << >>
                       \/ f1.eventValidation = << >>
                    THEN BseFail("drift", "get", MsgNoViewstate) /\ reqLog' = reqLog
                    ELSE /\ cookies' = ck
                         /\ fields1' = f1
                         /\ fields2' = fields2
                         /\ reqLog' = Append(reqLog,
                                Request("POST", "submit",
                                        submitData(f1, formatDateBSE(targetDate)), ck))
                         /\ pc' = "bse_submit"
                         /\ UNCHANGED <<metaVars, store, outVars, ended, pureVars>>

\* fetchBSEData step 2 settles; step 3 is issued
BseSubmitResponse ==
    /\ pc = "bse_submit"
    /\ UNCHANGED syncVars
    /\ \E out \in SubmitOutcomes(SessionOf(run, di)) :
        IF out.kind = "error"
        THEN BseFail("transport", "submit", MsgTransport) /\ UNCHANGED logVars
        ELSE IF out.status # 200
        THEN BseFail("status", "submit", MsgSubmitStatus) /\ UNCHANGED logVars
        ELSE /\ issued' = Append(issued, out)
             /\ IF ~out.page.marker
                THEN BseFail("nodata", "submit", MsgNoBond) /\ reqLog' = reqLog
                ELSE LET f2 == extractFormFields(out.page)
                     IN  IF f2.viewstate = << >> \/ f2.viewstateGenerator = << >>
                            \/ f2.eventValidation = << >>
                         THEN BseFail("drift", "submit", MsgNoViewstate2)
                              /\ reqLog' = reqLog
                         ELSE /\ fields2' = f2
                              /\ reqLog' = Append(reqLog,
                                     Request("POST", "export",
                                             downloadData(f2, formatDateBSE(targetDate)),
                                             cookies))
                              /\ pc' = "bse_export"
                              /\ UNCHANGED <<metaVars, cookies, fields1, store, outVars,
                                             ended, pureVars>>

\* fetchBSEData step 3 settles; back in main, storeBSEData up to its delete
BseExportResponse ==
    /\ pc = "bse_export"
    /\ \E out \in DataOutcomes :
        IF out.kind = "error"
        THEN BseFail("transport", "export", MsgTransport)
             /\ reqLog' = << >> /\ issued' = << >>
             /\ UNCHANGED syncVars
        ELSE IF out.status # 200
        THEN BseFail("status", "export", MsgDownloadStatus)
             /\ reqLog' = << >> /\ issued' = <<out>>
             /\ UNCHANGED syncVars
        ELSE LET tradeDateStr == formatDateDB(targetDate)
                 c == classifyDaily(out.body)
                 recs == dbRecordsBSE(c.text, tradeDateStr)
             IN  IF c.class = "NoData"
                    THEN BseFail("html", "export", MsgHtml) /\ reqLog' = << >> /\ issued' = <<out>>
                         /\ UNCHANGED syncVars
                    ELSE IF Len(recs) = 0
                    THEN BseFail("empty", "parse", MsgNoBse) /\ reqLog' = << >> /\ issued' = <<out>>
                         /\ UNCHANGED syncVars
                    ELSE /\ BeginSync(recs, tradeDateStr, "BSE")
                         /\ ResetLocals
                         /\ reqLog' = << >>
                         /\ issued' = <<out>>
                         /\ pc' = "bse_delete"
                         /\ UNCHANGED <<metaVars, store, outVars, ended, pureVars>>

\* storeBSEData between its two awaits
BseDeleteDone ==
    /\ pc = "bse_delete"
    /\ DeleteSettles(formatDateDB(targetDate), "BSE")
    /\ pc' = "bse_insert"
    /\ UNCHANGED <<metaVars, localVars, logVars, outVars, ended, pureVars>>

\* storeBSEData: the insert settles; back in main, cleanupOldData up to its delete
BseInsertDone ==
    /\ pc = "bse_insert"
    /\ \E ok \in BOOLEAN :
        IF ok
        THEN /\ store' = InsertRows(store, dbRecords)
             /\ results' = [results EXCEPT !.bse.success = TRUE,
                                           !.bse.count = Len(dbRecords)]
             /\ ended' = [ended EXCEPT !.bse = EndOf("ok", "insert", "success")]
        ELSE /\ store' = store
             /\ results' = [results EXCEPT !.bse.error = MsgDb]
             /\ ended' = [ended EXCEPT !.bse = EndOf("storage", "insert", "error")]
    /\ pc' = "cleanup"
    /\ UNCHANGED <<metaVars, localVars, logVars, syncVars, totals, sent, saved,
                   exitCode, pureVars>>

\* the text of the summary message, as the facts it states
SummaryMsg(res, unsaved) ==
    [kind |-> "summary",
     nse |-> IF res.nse.success THEN "stored" ELSE "failed",
     bse |-> IF res.bse.success THEN "stored" ELSE "failed",
     cleanup |-> res.cleanup.count,
     unsaved |-> unsaved,
     errors |-> [nse |-> res.nse.error, bse |-> res.bse.error]]

\* cleanupOldData settles; the summary, up to saveErrorToStorage or the send
CleanupDone ==
    /\ pc = "cleanup"
    /\ \E ok \in BOOLEAN :
        LET cutoffDateStr == formatDateDB(AddDays(now, -RetentionDays))
            after == IF ok THEN DeleteLt(store, cutoffDateStr) ELSE store
            res == [results EXCEPT
                       !.cleanup.count = BagCardinality(store) - BagCardinality(after)]
        IN  /\ store' = after
            /\ results' = res
            /\ ended' = [ended EXCEPT !.cleanup = IF ok THEN "ok" ELSE "error"]
            /\ IF res.nse.error # Null \/ res.bse.error # Null
               THEN pc' = "save_error" /\ sent' = sent
               ELSE pc' = "send" /\ sent' = Append(sent, SummaryMsg(res, FALSE))
    /\ ResetSync
    /\ reqLog' = << >>
    /\ issued' = << >>
    /\ UNCHANGED <<metaVars, localVars, totals, saved, exitCode, pureVars>>

\* a summary step that sends nothing when the artifact could not be stored
SaveErrorDoneQuiet ==
    /\ pc = "save_error"
    /\ \E ok \in BOOLEAN :
        /\ saved' = IF ok
                    THEN Append(saved, [nse |-> results.nse.error, bse |-> results.bse.error])
                    ELSE saved
        /\ sent' = IF ok THEN Append(sent, SummaryMsg(results, FALSE)) ELSE sent
    /\ pc' = "send"
    /\ UNCHANGED <<metaVars, localVars, logVars, syncVars, store, results, totals,
                   ended, exitCode, pureVars>>

\* saveErrorToStorage settles; the message is completed and sent
SaveErrorDone ==
    /\ pc = "save_error"
    /\ \E ok \in BOOLEAN :
        /\ saved' = IF ok
                    THEN Append(saved, [nse |-> results.nse.error, bse |-> results.bse.error])
                    ELSE saved
        /\ sent' = Append(sent, SummaryMsg(results, ~ok))
    /\ pc' = "send"
    /\ UNCHANGED <<metaVars, localVars, logVars, syncVars, store, results, totals,
                   ended, exitCode, pureVars>>

\* an end of the run that exits with failure when either source failed
SendDoneEitherFailed ==
    /\ pc = "send"
    /\ exitCode' = IF ~results.nse.success \/ ~results.bse.success
                   THEN "exit1" ELSE "exit0"
    /\ pc' = "idle"
    /\ UNCHANGED <<metaVars, localVars, logVars, syncVars, store, results, totals,
                   ended, sent, saved, pureVars>>

\* sendTelegramMessage settles (a failed send is logged only); the process ends
SendDone ==
    /\ pc = "send"
    /\ exitCode' = IF ~results.nse.success /\ ~results.bse.success
                   THEN "exit1" ELSE "exit0"
    /\ pc' = "idle"
    /\ UNCHANGED <<metaVars, localVars, logVars, syncVars, store, results, totals,
                   ended, sent, saved, pureVars>>

(***************************************************************************)
(* Backfill run: src/unnamed/part_000 main.                                *)
(***************************************************************************)
MigrationMsg(t) ==
    [kind |-> "migration", processed |-> t.processedDates,
     skipped |-> t.skippedDates, total |-> t.totalRecords]

\* the loop body for the k-th date up to its first await (the GET of
\* fetchBSECSV), or, past the last date, the final message up to its send
BfBegin(k, tot) ==
    /\ di' = k
    /\ ResetLocals
    /\ ResetSync
    /\ issued' = << >>
    /\ IF k <= Len(BackfillDates)
       THEN /\ targetDate' = BackfillDates[k]
            /\ reqLog' = <<Request("GET", "get", EmptyForm, << >>)>>
            /\ ended' = InitEnded
            /\ sent' = sent
            /\ pc' = "bf_get"
       ELSE /\ targetDate' = targetDate
            /\ reqLog' = << >>
            /\ ended' = ended
            /\ sent' = Append(sent, MigrationMsg(tot))
            /\ pc' = "bf_send"

\* main up to its first await
StartBackfill ==
    /\ pc = "idle"
    /\ run < MaxRuns
    /\ run' = run + 1
    /\ mode' = "backfill"
    /\ results' = InitResults
    /\ totals' = InitTotals
    /\ saved' = << >>
    /\ exitCode' = "running"
    /\ BfBegin(1, InitTotals)
    /\ UNCHANGED <<now, store, pureVars>>

\* fetchBSECSV returned null, or the CSV was empty: "skipped", then the sleep
BfSkip(kind, step) ==
    /\ totals' = [totals EXCEPT !.skippedDates = @ + 1]
    /\ ended' = [ended EXCEPT !.bse = EndOf(kind, step, "skipped")]
    /\ ResetLocals
    /\ pc' = "bf_sleep"
    /\ UNCHANGED <<metaVars, store, results, sent, saved, exitCode, pureVars>>

\* the catch of the loop body: process.exit(1), no notification
BfError(kind, step) ==
    /\ ended' = [ended EXCEPT !.bse = EndOf(kind, step, "exit")]
    /\ ResetLocals
    /\ exitCode' = "exit1"
    /\ pc' = "idle"
    /\ UNCHANGED <<metaVars, store, results, totals, sent, saved, pureVars>>

\* fetchBSECSV step 1 settles; step 2 is issued
BfGetResponse ==
    /\ pc = "bf_get"
    /\ UNCHANGED syncVars
    /\ \E out \in GetOutcomes(SessionOf(run, di)) :
        IF out.kind = "error"
        THEN BfError("transport", "get") /\ UNCHANGED logVars
        ELSE IF out.status # 200
        THEN BfSkip("status", "get") /\ UNCHANGED logVars
        ELSE LET f1 == extractFormFields(out.page)
                 ck == extractCookies(out)
             IN  /\ issued' = Append(issued, out)
                 /\ IF f1.viewstate = << >>
                    THEN BfSkip("drift", "get") /\ reqLog' = reqLog
                    ELSE /\ cookies' = ck
                         /\ fields1' = f1
                         /\ fields2' = fields2
                         /\ reqLog' = Append(reqLog,
                                Request("POST", "submit",
                                        submitData(f1, formatDateBSE(targetDate)), ck))
                         /\ pc' = "bf_submit"
                         /\ UNCHANGED <<metaVars, store, outVars, ended, pureVars>>

\* fetchBSECSV step 2 settles; step 3 is issued
BfSubmitResponse ==
    /\ pc = "bf_submit"
    /\ UNCHANGED syncVars
    /\ \E out \in SubmitOutcomes(SessionOf(run, di)) :
        IF out.kind = "error"
        THEN BfError("transport", "submit") /\ UNCHANGED logVars
        ELSE IF out.status # 200
        THEN BfSkip("status", "submit") /\ UNCHANGED logVars
        ELSE /\ issued' = Append(issued, out)
             /\ IF ~out.page.marker
                THEN BfSkip("nodata", "submit") /\ reqLog' = reqLog
                ELSE LET f2 == extractFormFields(out.page)
                     IN  IF f2.viewstate = << >>
                         THEN BfSkip("drift", "submit") /\ reqLog' = reqLog
                         ELSE /\ fields2' = f2
                              /\ reqLog' = Append(reqLog,
                                     Request("POST", "export",
                                             downloadData(f2, formatDateBSE(targetDate)),
                                             cookies))
                              /\ pc' = "bf_export"
                              /\ UNCHANGED <<metaVars, cookies, fields1, store, outVars,
                                             ended, pureVars>>

\* fetchBSECSV step 3 settles; back in the loop body, up to the delete
BfExportResponse ==
    /\ pc = "bf_export"
    /\ \E out \in DataOutcomes :
        IF out.kind = "error"
        THEN BfError("transport", "export") /\ reqLog' = << >> /\ issued' = << >>
             /\ UNCHANGED syncVars
        ELSE IF out.status # 200
        THEN BfSkip("status", "export") /\ reqLog' = << >> /\ issued' = <<out>>
             /\ UNCHANGED syncVars
        ELSE LET dbDate == formatDateDB(targetDate)
                 c == classifyBackfill(out.body)
                 recs == dbRecordsBackfill(c.text, dbDate)
             IN  IF c.class = "NoData"
                    THEN BfSkip(IF IsHtmlBody(out.body) THEN "html" ELSE "empty", "export")
                         /\ reqLog' = << >> /\ issued' = <<out>>
                         /\ UNCHANGED syncVars
                    ELSE IF Len(recs) = 0
                    THEN BfSkip("empty", "parse") /\ reqLog' = << >> /\ issued' = <<out>>
                         /\ UNCHANGED syncVars
                    ELSE /\ BeginSync(recs, dbDate, "BSE")
                         /\ ResetLocals
                         /\ reqLog' = << >>
                         /\ issued' = <<out>>
                         /\ pc' = "bf_delete"
                         /\ UNCHANGED <<metaVars, store, outVars, ended, pureVars>>

\* the loop body between its two storage awaits
BfDeleteDone ==
    /\ pc = "bf_delete"
    /\ DeleteSettles(formatDateDB(targetDate), "BSE")
    /\ pc' = "bf_insert"
    /\ UNCHANGED <<metaVars, localVars, logVars, outVars, ended, pureVars>>

\* the insert settles: saved and the sleep, or the catch
BfInsertDone ==
    /\ pc = "bf_insert"
    /\ UNCHANGED <<logVars, syncVars>>
    /\ \E ok \in BOOLEAN :
        IF ok
        THEN /\ store' = InsertRows(store, dbRecords)
             /\ totals' = [totals EXCEPT !.totalRecords = @ + Len(dbRecords),
                                         !.processedDates = @ + 1]
             /\ ended' = [ended EXCEPT !.bse = EndOf("ok", "insert", "success")]
             /\ pc' = "bf_sleep"
             /\ UNCHANGED <<metaVars, localVars, results, sent, saved, exitCode, pureVars>>
        ELSE BfError("storage", "insert")

\* the pacing sleep ends: the next date, or the final message
BfSleepDone ==
    /\ pc = "bf_sleep"
    /\ BfBegin(di + 1, totals)
    /\ UNCHANGED <<run, mode, now, store, results, totals, saved, exitCode, pureVars>>

\* bot.sendMessage settles (a failed send is logged only); main returns
BfSendDone ==
    /\ pc = "bf_send"
    /\ exitCode' = "exit0"
    /\ pc' = "idle"
    /\ UNCHANGED <<metaVars, localVars, logVars, syncVars, store, results, totals,
                   ended, sent, saved, pureVars>>

(***************************************************************************)
(* The process dies at an await (killed, host reboot): its memory is gone, *)
(* the table and the storage calls already made stay.                      *)
(***************************************************************************)
Crash ==
    /\ pc # "idle"
    /\ exitCode' = "crashed"
    /\ pc' = "idle"
    /\ ResetLocals
    /\ reqLog' = << >>
    /\ issued' = << >>
    /\ results' = InitResults
    /\ totals' = InitTotals
    /\ ended' = InitEnded
    /\ sent' = << >>
    /\ saved' = << >>
    /\ UNCHANGED <<metaVars, syncVars, store, pureVars>>

Next ==
    \/ StartDaily
    \/ NseResponse
    \/ NseDeleteDone
    \/ NseInsertDone
    \/ BseGetResponse
    \/ BseSubmitResponse
    \/ BseExportResponse
    \/ BseDeleteDone
    \/ BseInsertDone
    \/ CleanupDone
    \/ SaveErrorDone
    \/ SendDone
    \/ StartBackfill
    \/ BfGetResponse
    \/ BfSubmitResponse
    \/ BfExportResponse
    \/ BfDeleteDone
    \/ BfInsertDone
    \/ BfSleepDone
    \/ BfSendDone
    \/ Crash

Spec == Init /\ [][Next]_vars

(***************************************************************************)
(* The response classifier on its own: every body up to MaxBodyLen over    *)
(* ClassChars, classified by each variant.                                 *)
(***************************************************************************)
ClassChars == {"<", "!", NL, BOM, "a"}

ClassBodies == UNION {[1..n -> ClassChars] : n \in 0..MaxBodyLen}

InitClassify ==
    /\ InitProcess
    /\ store = EmptyBag
    /\ body \in ClassBodies
    /\ verdict = NoVerdict

ClassifyDaily ==
    /\ verdict = NoVerdict
    /\ verdict' = classifyDaily(body)
    /\ UNCHANGED <<metaVars, pc, localVars, logVars, syncVars, store, outVars, ended, body>>

ClassifyBackfill ==
    /\ verdict = NoVerdict
    /\ verdict' = classifyBackfill(body)
    /\ UNCHANGED <<metaVars, pc, localVars, logVars, syncVars, store, outVars, ended, body>>

NextClassify ==
    \/ ClassifyDaily
    \/ ClassifyBackfill

SpecClassify == InitClassify /\ [][NextClassify]_vars

(***************************************************************************)
(* Properties of the store call (delete, then one insert of the batch).    *)
(***************************************************************************)
\* the number of non-empty lines of s after its first non-empty line
DataLines(s) ==
    Cardinality({k \in 1..Len(s) : s[k] # NL /\ (k = 1 \/ s[k - 1] = NL)}) - 1

\* the key of the store call in progress or last made
SyncDate == formatDateDB(targetDate)
SyncExchange == IF dbRecords # << >> THEN dbRecords[1].exchange ELSE "none"

\* C1: a store call issues the delete of its (trade_date, exchange) key first
\* and awaits it; only then it issues one single insert, and that insert carries
\* the complete normalized batch (one row per data line of the fetched CSV)
C1_DeleteThenOneInsert ==
    /\ Len(dbLog) <= 2
    /\ dbLog # << >> =>
        /\ dbRecords # << >>
        /\ dbLog[1] = [op |-> "delete", trade_date |-> SyncDate,
                       exchange |-> SyncExchange, rows |-> << >>]
        /\ \A k \in 1..Len(dbRecords) :
            /\ dbRecords[k].trade_date = SyncDate
            /\ dbRecords[k].exchange = SyncExchange
    /\ pc \in {"nse_delete", "bse_delete", "bf_delete"} =>
        /\ Len(dbLog) = 1
        /\ Len(dbRecords) = DataLines(issued[1].body)
    /\ pc \in {"nse_insert", "bse_insert", "bf_insert"} => Len(dbLog) = 2
    /\ Len(dbLog) = 2 =>
        dbLog[2] = [op |-> "insert", trade_date |-> SyncDate,
                    exchange |-> SyncExchange, rows |-> dbRecords]

\* a store call has issued the insert of a batch of two rows
C1_Witness ==
    /\ pc = "bse_insert"
    /\ Len(dbLog) = 2
    /\ Len(dbLog[2].rows) = 2

\* C2: when a store call has completed successfully, the rows stored under
\* its (trade_date, exchange) key are exactly its batch: no row of an earlier
\* batch remains and no row appears twice
C2_StoredIsLatestBatch ==
    (/\ Len(dbLog) = 2
     /\ \/ (pc = "cleanup" /\ results.bse.success)
        \/ (pc = "bse_get" /\ results.nse.success)
        \/ (pc = "bf_sleep" /\ ended.bse.kind = "ok"))
    => RowsOf(store, SyncDate, SyncExchange) = BagOfSeq(dbRecords)

\* C3: from the moment a store call starts, the rows stored under its key are
\* the old rows, no rows, or the new batch; never old rows together with new
C3_OldEmptyOrNew ==
    dbLog # << >> =>
        RowsOf(store, SyncDate, SyncExchange)
            \in {oldRows, EmptyBag, BagOfSeq(dbRecords)}

(***************************************************************************)
(* Properties of the three-step BSE session.                               *)
(***************************************************************************)
\* the hidden-field tokens a request carries, and those a page response carries
TokensOf(req) ==
    <<req.form.VIEWSTATE, req.form.VIEWSTATEGENERATOR, req.form.EVENTVALIDATION>>

PageTokens(resp) ==
    [f \in 1..3 |-> IF f \in DOMAIN resp.page.hidden THEN resp.page.hidden[f] ELSE << >>]

\* C4: the hidden-field tokens read from each response go into the next
\* request only: the submit carries the tokens of the GET's page, the export
\* those of the submit's page, no token is in more than one request, and the
\* cookies of the GET's response go with both later requests
C4_SessionThreaded ==
    (reqLog # << >> /\ reqLog[1].step = "get") =>
        /\ Len(reqLog) <= 3
        /\ reqLog[1].method = "GET"
        /\ reqLog[1].cookie = << >>
        /\ TokensOf(reqLog[1]) = <<<< >>, << >>, << >>>>
        /\ Len(reqLog) >= 2 =>
            /\ Len(issued) >= 1
            /\ reqLog[2].method = "POST"
            /\ reqLog[2].step = "submit"
            /\ TokensOf(reqLog[2]) = PageTokens(issued[1])
            /\ reqLog[2].cookie =
                   (IF issued[1].setCookie THEN issued[1].cookie ELSE << >>)
        /\ Len(reqLog) = 3 =>
            /\ Len(issued) >= 2
            /\ reqLog[3].method = "POST"
            /\ reqLog[3].step = "export"
            /\ TokensOf(reqLog[3]) = PageTokens(issued[2])
            /\ reqLog[3].cookie = reqLog[2].cookie
            /\ \A f, g \in 1..3 :
                   TokensOf(reqLog[2])[f] # << >> =>
                       TokensOf(reqLog[2])[f] # TokensOf(reqLog[3])[g]

\* the export of the second date of a backfill is in flight, with cookies
C4_Witness ==
    /\ pc = "bf_export"
    /\ di = 2
    /\ Len(reqLog) = 3
    /\ reqLog[3].cookie # << >>
    /\ reqLog[3].form.VIEWSTATE # << >>

\* C5: a 200 page of the GET or of the submit (results container present) on
\* which any of the three hidden fields is missing ends the sync as a hard
\* failure (UpstreamFormatDrift), and no further request is issued
C5_DriftIsHardFailure ==
    \A k \in 1..Len(issued) :
        (/\ "page" \in DOMAIN issued[k]
         /\ k = 1 \/ issued[k].page.marker
         /\ DOMAIN issued[k].page.hidden # {1, 2, 3})
        => /\ Len(reqLog) = k
           /\ ended.bse.kind = "drift"
           /\ ended.bse.as \in {"error", "exit"}

\* C6: a transport error or a non-200 status, at the NSE request or at any of
\* the three BSE steps, ends the sync as a hard failure (UpstreamUnavailable):
\* no later step is issued and nothing is stored
C6_UpstreamIsHardFailure ==
    /\ \A src \in {"nse", "bse"} :
        ended[src].kind \in {"transport", "status"} =>
            ended[src].as \in {"error", "exit"}
    /\ ended.bse.kind \in {"transport", "status"} =>
        /\ dbLog = << >>
        /\ ended.bse.step = "get" => Len(reqLog) <= 1
        /\ ended.bse.step = "submit" => Len(reqLog) <= 2

\* C7: a submit response without the results container, or an export body
\* that is HTML, ends the sync as NoData: benign, not recorded as an error of
\* the source, nothing stored
C7_NoDataIsBenign ==
    ended.bse.kind \in {"nodata", "html"} =>
        /\ ended.bse.as = "skipped"
        /\ results.bse.error = Null
        /\ dbLog = << >>

\* the first character of s that is not white space is "<"
LeadsWithMarkup(s) ==
    \E k \in 1..Len(s) : s[k] = "<" /\ \A h \in 1..(k - 1) : s[h] \in JsWhite

\* C8: the classifier is total: a body whose first non-white character starts
\* HTML markup is NoData; every other body, the empty one included, is
\* DataPayload and goes on as text with a leading byte-order mark removed
C8_ClassifierTotal ==
    verdict.variant # "none" =>
        /\ verdict.class \in {"NoData", "DataPayload"}
        /\ verdict.class = "NoData" <=> LeadsWithMarkup(body)
        /\ verdict.class = "DataPayload" =>
            verdict.text = IF body # << >> /\ body[1] = BOM THEN Tail(body) ELSE body

\* what C8 states, of the daily variant alone
DailyClassifierTotal == verdict.variant = "daily" => C8_ClassifierTotal

\* C9: zero data rows after parsing (an empty payload, or a header line
\* alone) is a hard failure (EmptyResult), and no storage call is made
C9_EmptyIsHardFailure ==
    /\ ended.bse.kind = "empty" =>
        /\ ended.bse.as \in {"error", "exit"}
        /\ dbLog = << >>
    /\ ended.nse.kind = "empty" =>
        /\ ended.nse.as \in {"error", "exit"}
        /\ pc = "bse_get" => dbLog = << >>

(***************************************************************************)
(* Properties of the daily run as a whole.                                 *)
(***************************************************************************)
HardKinds == {"transport", "status", "drift", "empty", "storage"}

BsePcs == {"bse_get", "bse_submit", "bse_export", "bse_delete", "bse_insert"}

\* C10: in a daily run a hard failure of one source is caught and recorded
\* as that source's error; the other source's pipeline, the retention
\* cleanup, the summary and the one notification still happen, and a source
\* counts as successful only when its insert completed
C10_FailureIsolated ==
    mode = "daily" =>
        /\ \A src \in {"nse", "bse"} :
            /\ ended[src].kind \in HardKinds =>
                /\ ended[src].as = "error"
                /\ results[src].error # Null
                /\ ~results[src].success
            /\ results[src].success =>
                /\ ended[src] = [kind |-> "ok", step |-> "insert", as |-> "success"]
                /\ results[src].error = Null
        /\ (ended.nse # NoEnd /\ ended.bse = NoEnd) => pc \in BsePcs
        /\ (ended.bse # NoEnd /\ ended.cleanup = "none") => pc = "cleanup"
        /\ (pc = "idle" /\ exitCode \in {"exit0", "exit1"}) =>
            /\ ended.nse # NoEnd
            /\ ended.bse # NoEnd
            /\ ended.cleanup # "none"
            /\ Len(sent) = 1
            /\ sent[1].kind = "summary"
            /\ \A src \in {"nse", "bse"} :
                /\ sent[1].errors[src] = results[src].error
                /\ sent[1][src] = IF ended[src].kind = "ok" THEN "stored" ELSE "failed"
            /\ exitCode = "exit1" <=> (ended.nse.kind # "ok" /\ ended.bse.kind # "ok")

\* a daily run has ended in which NSE failed hard and BSE was stored
C10_Witness ==
    /\ mode = "daily"
    /\ pc = "idle"
    /\ exitCode = "exit0"
    /\ ended.nse.kind = "status"
    /\ results.bse.success
    /\ ended.cleanup = "ok"
    /\ Len(sent) = 1

(***************************************************************************)
(* Properties of a run over several dates, and of what a run reports.      *)
(***************************************************************************)
\* C11: in a backfill run, once a date has ended in a hard failure, nothing
\* more is asked of the remote source or of the table in that run: the loop
\* does not go on to a later date
C11_BackfillStopsAtHardFailure ==
    [][(/\ mode = "backfill"
        /\ ended.bse.kind \in HardKinds
        /\ run' = run)
       => /\ di' = di
          /\ dbLog' = dbLog
          /\ Len(reqLog') <= Len(reqLog)]_vars

\* C12: in a run over several dates, a storage error of one date's sync ends
\* that date only: when the date is not the last of the queue the run goes on
C12_StorageErrorKeepsRunGoing ==
    (/\ mode = "backfill"
     /\ ended.bse.kind = "storage"
     /\ di < Len(BackfillDates))
    => exitCode = "running"

DeletePcs == {"nse_delete", "bse_delete", "bf_delete"}
InsertPcs == {"nse_insert", "bse_insert", "bf_insert"}

\* C13: a replace whose delete call reports an error fails with that error:
\* when the delete settles and the old rows of the key are still there (it
\* did not succeed), the store call does not go on to its insert
C13_DeleteErrorFailsReplace ==
    [][(/\ pc \in DeletePcs
        /\ oldRows # EmptyBag
        /\ store' = store
        /\ pc' # "idle")
       => pc' \notin InsertPcs]_vars

\* C14: a run that has exited after a hard failure of a source or date has
\* issued a notification send whose message states the cause of that failure
C14_HardFailureNotified ==
    \A src \in {"nse", "bse"} :
        (/\ pc = "idle"
         /\ exitCode \in {"exit0", "exit1"}
         /\ ended[src].kind \in HardKinds)
        => \E k \in 1..Len(sent) :
               /\ sent[k].kind = "summary"
               /\ sent[k].errors[src] # Null

(***************************************************************************)
(* The daily run when every awaited call settles and the process is not    *)
(* killed: the event loop resumes main after each await.                   *)
(***************************************************************************)
NextDaily ==
    \/ StartDaily
    \/ NseResponse
    \/ NseDeleteDone
    \/ NseInsertDone
    \/ BseGetResponse
    \/ BseSubmitResponse
    \/ BseExportResponse
    \/ BseDeleteDone
    \/ BseInsertDone
    \/ CleanupDone
    \/ SaveErrorDone
    \/ SendDone

SpecDailyFair == Init /\ [][NextDaily]_vars /\ WF_vars(NextDaily)

\* C15: a daily run issues at most one notification send, issues it only
\* after both sources' pipelines and the cleanup have finished, and every run
\* that has started comes to its end with exactly one send issued
C15_OneSendAtEnd ==
    /\ [](mode = "daily" =>
            /\ Len(sent) <= 1
            /\ sent # << >> =>
                /\ ended.nse # NoEnd
                /\ ended.bse # NoEnd
                /\ ended.cleanup # "none")
    /\ (pc = "nse_get") ~> (pc = "idle" /\ Len(sent) = 1)

\* a daily run has ended in which both sources failed, the cleanup failed and
\* the diagnostic artifact could not be stored
C15_Witness ==
    /\ mode = "daily"
    /\ pc = "idle"
    /\ exitCode = "exit1"
    /\ ended.cleanup = "error"
    /\ saved = << >>
    /\ Len(sent) = 1
    /\ sent[1].unsaved

(***************************************************************************)
(* Sequential execution.                                                   *)
(***************************************************************************)
RequestPcs ==
    {"nse_get", "bse_get", "bse_submit", "bse_export", "bf_get", "bf_submit", "bf_export"}

\* the request a run suspended at p is waiting for
StepAwaited(p) ==
    CASE p = "nse_get" -> "nse"
      [] p \in {"bse_get", "bf_get"} -> "get"
      [] p \in {"bse_submit", "bf_submit"} -> "submit"
      [] p \in {"bse_export", "bf_export"} -> "export"
      [] OTHER -> "none"

\* C16: at most one request is in flight: while a run waits for a response,
\* every request of its pipeline but the last has been answered; and the first
\* request of a pipeline is issued only when the run starts or when the
\* pipeline before it (other source, earlier date) has reached its outcome
C16_OneRequestInFlight ==
    /\ [](pc \in RequestPcs =>
            /\ Len(reqLog) = Len(issued) + 1
            /\ reqLog[Len(reqLog)].step = StepAwaited(pc)
            /\ \A k \in 1..Len(reqLog) :
                   reqLog[k].step = "nse" <=> pc = "nse_get")
    /\ [][(/\ Len(reqLog') = 1
           /\ reqLog' # reqLog \/ di' # di \/ run' # run)
          => \/ pc = "idle"
             \/ pc \in {"nse_get", "nse_insert"} /\ ended'.nse # NoEnd
             \/ pc = "bf_sleep" /\ ended.bse # NoEnd]_vars

\* the first request of the second date of a backfill is in flight
C16_Witness ==
    /\ pc = "bf_get"
    /\ di = 2
    /\ Len(reqLog) = 1
    /\ issued = << >>

(***************************************************************************)
(* The trade dates on their own: getTargetDate at clock readings of two    *)
(* weeks around the cutoff and around midnight, and the backfill's queue.  *)
(***************************************************************************)
\* minutes of the UTC day: 05:30, 14:59, 15:00, 20:30, 23:59, 00:00, 05:29 IST
ClockMinutes == {0, 569, 570, 900, 1109, 1110, 1439}

DateNows == {mkDate(d, m) : d \in 0..MaxClockDay, m \in ClockMinutes}

InitDates ==
    /\ InitProcess
    /\ store = EmptyBag
    /\ body = << >>
    /\ verdict = NoVerdict

\* main of the daily script up to const targetDate = getTargetDate()
ResolveDaily ==
    /\ run = 0
    /\ \E t \in DateNows :
        /\ now' = t
        /\ targetDate' = getTargetDate(t)
    /\ run' = 1
    /\ mode' = "daily"
    /\ UNCHANGED <<di, pc, localVars, logVars, syncVars, store, outVars, ended, pureVars>>

\* main of the backfill script up to the loop, and the loop's k-th date
QueueBackfill ==
    /\ run = 0
    /\ \E k \in 1..Len(DateQueue) :
        /\ di' = k
        /\ targetDate' = DateQueue[k]
    /\ run' = 1
    /\ mode' = "backfill"
    /\ UNCHANGED <<now, pc, localVars, logVars, syncVars, store, outVars, ended, pureVars>>

NextDates ==
    \/ ResolveDaily
    \/ QueueBackfill

SpecDates == InitDates /\ [][NextDates]_vars

\* day 0 is Wednesday 2026-01-28: days 3 and 4 of each week from it are the
\* Saturday and the Sunday
IsWeekend(d) == (((d % 7) + 7) % 7) \in {3, 4}

LocalDay(t) == IF t.min + 330 >= 1440 THEN t.day + 1 ELSE t.day
LocalMinute(t) == IF t.min + 330 >= 1440 THEN t.min + 330 - 1440 ELSE t.min + 330

\* the latest complete session's date: today from 15:00 local, else yesterday
SessionDay(t) == IF LocalMinute(t) >= 900 THEN LocalDay(t) ELSE LocalDay(t) - 1

\* the latest weekday on or before day d
LatestWeekday(d) ==
    CHOOSE w \in (d - 6)..d :
        ~IsWeekend(w) /\ \A e \in (w + 1)..d : IsWeekend(e)

DigitVal(c) == CHOOSE n \in 0..9 : DigitChars[n + 1] = c

\* <<day of month, month, year>> read from a DD/MM/YYYY text
ReadDMY(ds) ==
    <<10 * DigitVal(ds[1]) + DigitVal(ds[2]),
      10 * DigitVal(ds[4]) + DigitVal(ds[5]),
      1000 * DigitVal(ds[7]) + 100 * DigitVal(ds[8]) + 10 * DigitVal(ds[9])
          + DigitVal(ds[10])>>

\* the calendar from 2026-01-28 (day 0) to 2026-05-31
CalendarDMY(d) ==
    CASE d \in 0..3 -> <<28 + d, 1, 2026>>
      [] d \in 4..31 -> <<d - 3, 2, 2026>>
      [] d \in 32..62 -> <<d - 31, 3, 2026>>
      [] d \in 63..92 -> <<d - 62, 4, 2026>>
      [] d \in 93..123 -> <<d - 92, 5, 2026>>

\* DD/MM/YYYY rearranged as YYYY-MM-DD
IsoOf(ds) == SubSeq(ds, 7, 10) \o <<"-">> \o SubSeq(ds, 4, 5) \o <<"-">> \o SubSeq(ds, 1, 2)

IsDateText(ds) ==
    /\ Len(ds) = 10
    /\ ds[3] = "/"
    /\ ds[6] = "/"
    /\ \A k \in {1, 2, 4, 5, 7, 8, 9, 10} : \E n \in 1..10 : DigitChars[n] = ds[k]

\* C19: the submit and the export form carry the trade date as zero-padded
\* DD/MM/YYYY in the from-date and the to-date field and in no other field,
\* the same text in both requests (2026-01-28 gives 28/01/2026), and the key
\* of that date's store call is the same date as YYYY-MM-DD
C19_DateTexts ==
    /\ []((reqLog # << >> /\ reqLog[1].step = "get") =>
            \A k \in 2..Len(reqLog) :
                LET ds == reqLog[k].form.txtFromDate
                IN  /\ IsDateText(ds)
                    /\ ReadDMY(ds) = CalendarDMY(targetDate.day)
                    /\ {f \in DOMAIN reqLog[k].form : reqLog[k].form[f] = ds}
                           = {"txtFromDate", "txtTodate"}
                    /\ ds = reqLog[2].form.txtFromDate
                    /\ targetDate.day = 0 =>
                           ds = <<"2", "8", "/", "0", "1", "/", "2", "0", "2", "6">>)
    /\ [][(pc \in {"bse_export", "bf_export"} /\ dbLog' # << >>)
          => /\ dbLog'[1].trade_date = IsoOf(reqLog[3].form.txtFromDate)
             /\ \A k \in 1..Len(dbRecords') :
                    dbRecords'[k].trade_date = dbLog'[1].trade_date]_vars

\* the store call of 2026-01-28 of a backfill has issued its delete
C19_Witness ==
    /\ pc = "bf_delete"
    /\ targetDate.day = 0
    /\ Len(dbLog) = 1
    /\ dbLog[1].trade_date = <<"2", "0", "2", "6", "-", "0", "1", "-", "2", "8">>

(***************************************************************************)
(* The records maps on their own: one parsed record with at most one of    *)
(* the numeric columns, holding every cell text up to MaxCellLen over      *)
(* CellChars, and the cell 1,234.50.                                       *)
(***************************************************************************)
CellChars == {"1", "5", ",", "-", "."}

CellExample == <<"1", ",", "2", "3", "4", ".", "5", "0">>

\* the price of the example file
CellPrice == <<"1", "0", "0", ".", "5", "0">>

CellTexts ==
    UNION {[1..n -> CellChars] : n \in 0..MaxCellLen} \cup {CellExample, CellPrice}

ColumnsNSE == {ColCouponRate, ColLtp, ColValueCrores, ColVolumeShares, ColFaceValue}

ColumnsBSE ==
    {ColClosePrice, ColLtp, ColTotalTurnover, ColTurnoverInLakhs, ColTurnoverRsLacs,
     ColTotalVolume, ColNoOfTradesDot, ColNoOfTrades}

\* the column names storeBSEData tries for each field, in its order
AliasTable ==
    [security_code |-> <<ColScripName, ColSecurityCode, ColScripCode>>,
     ltp |-> <<ColClosePrice, ColLtp>>,
     turnover_rs_lacs |-> <<ColTotalTurnover, ColTurnoverInLakhs, ColTurnoverRsLacs>>,
     no_of_trades |-> <<ColTotalVolume, ColNoOfTradesDot, ColNoOfTrades>>]

ColumnsAlias == UNION {{AliasTable[f][k] : k \in DOMAIN AliasTable[f]} : f \in DOMAIN AliasTable}

\* the records parseCSVLib may yield of one data line: a symbol column, and
\* none or one of the columns cols with cell x
RecordsWith(cols, x) ==
    {<<"S">> :> <<"x">>} \cup {(<<"S">> :> <<"x">>) @@ (c :> x) : c \in cols}

\* records with two column names of one field: one with cell x, the other
\* with an empty cell or with the cell 7
AliasRecords(x) ==
    {(<<"S">> :> <<"x">>) @@ (AliasTable[f][i] :> x) @@ (AliasTable[f][j] :> y) :
        <<f, i, j, y>> \in {t \in (DOMAIN AliasTable) \X (1..3) \X (1..3) \X {<< >>, <<"7">>} :
                               /\ t[2] \in DOMAIN AliasTable[t[1]]
                               /\ t[3] \in DOMAIN AliasTable[t[1]]
                               /\ t[2] # t[3]}}

\* the records a line of the BSE file may parse to
RecordsBSE(x) == RecordsWith(ColumnsAlias, x) \cup AliasRecords(x)

InitNumeric ==
    /\ InitProcess
    /\ store = EmptyBag
    /\ body \in CellTexts
    /\ verdict = NoVerdict

\* records.map of storeNSEData
NormalizeNSE ==
    /\ dbRecords = << >>
    /\ \E r \in RecordsWith(ColumnsNSE, body) :
        dbRecords' = <<rowNSE(WithExchange(r, TextNSE), formatDateDB(targetDate))>>
    /\ UNCHANGED <<metaVars, pc, localVars, logVars, dbLog, oldRows, store, outVars,
                   ended, pureVars>>

\* records.map of storeBSEData
NormalizeBSE ==
    /\ dbRecords = << >>
    /\ \E r \in RecordsBSE(body) :
        dbRecords' = <<rowBSE(r, formatDateDB(targetDate))>>
    /\ UNCHANGED <<metaVars, pc, localVars, logVars, dbLog, oldRows, store, outVars,
                   ended, pureVars>>

\* records.map of the backfill loop
NormalizeBackfill ==
    /\ dbRecords = << >>
    /\ \E r \in RecordsBSE(body) :
        dbRecords' = <<rowBackfill(r, formatDateDB(targetDate))>>
    /\ mode' = "backfill"
    /\ UNCHANGED <<run, now, targetDate, di, pc, localVars, logVars, dbLog, oldRows,
                   store, outVars, ended, pureVars>>

\* a BSE file of one data line: the header of today's export and the line
\* ABC,x,25.00,10
FileWithPrice(x) ==
    ColScripName \o <<",">> \o ColClosePrice \o <<",">> \o ColTotalTurnover
        \o <<",">> \o ColTotalVolume \o <<NL>>
        \o <<"A", "B", "C", ",">> \o x \o <<",", "2", "5", ".", "0", "0", ",", "1", "0">>

\* storeBSEData up to its records.map, of the file with or without a BOM
ParseStoreBSE ==
    /\ dbRecords = << >>
    /\ \E csvData \in {FileWithPrice(body), <<BOM>> \o FileWithPrice(body)} :
        dbRecords' = dbRecordsBSE(StripBOM(csvData), formatDateDB(targetDate))
    /\ UNCHANGED <<metaVars, pc, localVars, logVars, dbLog, oldRows, store, outVars,
                   ended, pureVars>>

\* the backfill loop from the BOM test to its records.map
ParseBackfill ==
    /\ dbRecords = << >>
    /\ \E csvContent \in {FileWithPrice(body), <<BOM>> \o FileWithPrice(body)} :
        dbRecords' = dbRecordsBackfill(StripBOM(csvContent), formatDateDB(targetDate))
    /\ mode' = "backfill"
    /\ UNCHANGED <<run, now, targetDate, di, pc, localVars, logVars, dbLog, oldRows,
                   store, outVars, ended, pureVars>>

NextNumeric ==
    \/ NormalizeNSE
    \/ NormalizeBSE
    \/ NormalizeBackfill
    \/ ParseStoreBSE
    \/ ParseBackfill

SpecNumeric == InitNumeric /\ [][NextNumeric]_vars

NumericFields == {"coupon_rate", "ltp", "turnover_rs_lacs", "no_of_trades", "face_value"}

\* what 1,234.50 is as the value of field f: 1234.5; the whole number 1234 for
\* the count of trades; 123450 for the NSE turnover, converted from crores
ExampleValue(f, ex) ==
    IF f = "no_of_trades" THEN [kind |-> "num", neg |-> FALSE, int |-> 1234, frac |-> << >>]
    ELSE IF f = "turnover_rs_lacs" /\ ex = "NSE"
    THEN [kind |-> "num", neg |-> FALSE, int |-> 123450, frac |-> << >>]
    ELSE [kind |-> "num", neg |-> FALSE, int |-> 1234, frac |-> <<"5">>]

\* C20: for every numeric field of a row, when the columns it could be read
\* from are absent or hold "" or a lone "-", the field is null (not a number,
\* not NaN); when they hold 1,234.50 the field is null or that number with
\* the separators removed
C20_NumericTolerance ==
    \A k \in 1..Len(dbRecords) :
        LET row == dbRecords[k]
            raw == row.raw_data
            present == DOMAIN raw \cap (ColumnsNSE \cup ColumnsBSE)
        IN  \A f \in NumericFields :
                /\ (\A c \in present : raw[c] \in {<< >>, <<"-">>})
                       => row[f] = NullValue
                /\ (\A c \in present : raw[c] = CellExample)
                       => row[f] \in {NullValue, ExampleValue(f, row.exchange)}

(***************************************************************************)
(* Units of the turnover.                                                  *)
(***************************************************************************)
\* s is digits, digits.digits, digits. or .digits
IsNumberText(s) ==
    LET parts == SplitOn(s, ".")
    IN  /\ Len(parts) \in {1, 2}
        /\ \A k \in 1..Len(parts) : \A j \in 1..Len(parts[k]) : parts[k][j] \in DigitSet
        /\ \E k \in 1..Len(parts) : parts[k] # << >>

\* the number the text s writes, with the decimal point moved shift places
\* to the right
NativeValue(s, shift) ==
    LET parts == SplitOn(s, ".")
        f == (IF Len(parts) = 2 THEN parts[2] ELSE << >>) \o [k \in 1..shift |-> "0"]
    IN  [kind |-> "num", neg |-> FALSE,
         int |-> DigitsValue(parts[1] \o SubSeq(f, 1, shift)),
         frac |-> DropWhileEnd(SubSeq(f, shift + 1, Len(f)), {"0"})]

TurnoverColumns == {ColValueCrores, ColTotalTurnover, ColTurnoverInLakhs, ColTurnoverRsLacs}

\* C21: when the turnover cell of a row, its commas removed, writes a number,
\* the stored turnover_rs_lacs of an NSE row is that number times 100, and of
\* a BSE row (daily and backfill) that number itself
C21_TurnoverUnits ==
    \A k \in 1..Len(dbRecords) :
        LET row == dbRecords[k]
            raw == row.raw_data
        IN  \A c \in DOMAIN raw \cap TurnoverColumns :
                IsNumberText(RemoveCommas(raw[c])) =>
                    row.turnover_rs_lacs =
                        NativeValue(RemoveCommas(raw[c]), IF row.exchange = "NSE" THEN 2 ELSE 0)

\* the same for the BSE rows alone, and for the NSE rows whose product is exact
C21_UnitsWhereExact ==
    \A k \in 1..Len(dbRecords) :
        LET row == dbRecords[k]
            raw == row.raw_data
        IN  \A c \in DOMAIN raw \cap TurnoverColumns :
                IsNumberText(RemoveCommas(raw[c])) =>
                    \/ row.turnover_rs_lacs =
                           NativeValue(RemoveCommas(raw[c]), IF row.exchange = "NSE" THEN 2 ELSE 0)
                    \/ row.exchange = "NSE" /\ row.turnover_rs_lacs.kind \in {"below", "above"}

(***************************************************************************)
(* Column names of the BSE file.                                           *)
(***************************************************************************)
CanonicalFields ==
    {"trade_date", "exchange", "security_code", "issuer_name", "coupon_rate",
     "maturity_date", "ltp", "turnover_rs_lacs", "no_of_trades", "bond_type",
     "face_value", "credit_rating"}

Canonical(row) == [f \in CanonicalFields |-> row[f]]

\* record r with column c named c2 instead
Renamed(r, c, c2) ==
    [k \in (DOMAIN r \ {c}) \cup {c2} |-> IF k = c2 THEN r[c] ELSE r[k]]

\* the row the variant at work builds of a BSE record
NormalizedBSE(r, d) == IF mode = "backfill" THEN rowBackfill(r, d) ELSE rowBSE(r, d)

\* the row built of a record with one column name of field f has the same
\* canonical fields as the row built of it under any other name of f
AliasInvariant(row) ==
    \A f \in DOMAIN AliasTable :
        LET here == {k \in DOMAIN AliasTable[f] : AliasTable[f][k] \in DOMAIN row.raw_data}
        IN  Cardinality(here) = 1 =>
                \A k \in here, k2 \in DOMAIN AliasTable[f] :
                    Canonical(row) =
                        Canonical(NormalizedBSE(Renamed(row.raw_data, AliasTable[f][k],
                                                        AliasTable[f][k2]),
                                                row.trade_date))

\* C22: a BSE row carrying a value under one column name of a field has the
\* same canonical fields as the row carrying it under any other known name
\* of that field, in the daily script and in the backfill
C22_AliasInvariance ==
    \A k \in 1..Len(dbRecords) :
        dbRecords[k].exchange = "BSE" => AliasInvariant(dbRecords[k])

\* the same for the daily script alone
C22_DailyAliasInvariance ==
    \A k \in 1..Len(dbRecords) :
        dbRecords[k].exchange = "BSE" /\ mode # "backfill" => AliasInvariant(dbRecords[k])

\* field f as read from the one column c of record r
FieldUnder(f, r, c) ==
    IF f = "security_code" THEN TextOrNull(r, <<c>>)
    ELSE IF f = "no_of_trades" THEN IntOrNull(r, <<c>>)
    ELSE FloatOrNull(r, <<c>>)

NullField(f) == IF f = "security_code" THEN NullText ELSE NullValue

\* the places in AliasTable[f] of the columns of f that record r has
ColumnsHere(f, r) == {k \in DOMAIN AliasTable[f] : AliasTable[f][k] \in DOMAIN r}

LeastOf(S) == CHOOSE k \in S : \A j \in S : k <= j

\* the rows storeBSEData built of records with several columns of a field
SeveralAliases(row, f) ==
    /\ row.exchange = "BSE"
    /\ mode # "backfill"
    /\ Cardinality(ColumnsHere(f, row.raw_data)) >= 2

\* C23 as stated: of several columns of one field in a row, the first in the
\* order of AliasTable gives the field, whatever its cell holds
C23_FirstColumnWins ==
    \A n \in 1..Len(dbRecords) : \A f \in DOMAIN AliasTable :
        SeveralAliases(dbRecords[n], f) =>
            LET raw == dbRecords[n].raw_data
            IN  dbRecords[n][f] =
                    FieldUnder(f, raw, AliasTable[f][LeastOf(ColumnsHere(f, raw))])

\* C23: of several columns of one field in a row, the first in the order of
\* AliasTable whose cell is not empty gives the field (null when all are
\* empty)
C23_FirstNonEmptyWins ==
    \A n \in 1..Len(dbRecords) : \A f \in DOMAIN AliasTable :
        SeveralAliases(dbRecords[n], f) =>
            LET raw == dbRecords[n].raw_data
                full == {k \in ColumnsHere(f, raw) : raw[AliasTable[f][k]] # << >>}
            IN  dbRecords[n][f] =
                    IF full = {} THEN NullField(f)
                    ELSE FieldUnder(f, raw, AliasTable[f][LeastOf(full)])

\* a row with prices 1 under Close Price and 7 under LTP, stored with ltp 1
C23_Witness ==
    /\ Len(dbRecords) = 1
    /\ SeveralAliases(dbRecords[1], "ltp")
    /\ dbRecords[1].raw_data[ColClosePrice] = <<"1">>
    /\ dbRecords[1].raw_data[ColLtp] = <<"7">>
    /\ dbRecords[1].ltp = [kind |-> "num", neg |-> FALSE, int |-> 1, frac |-> << >>]

(***************************************************************************)
(* The record of a BSE row.                                                *)
(***************************************************************************)
TextABC == <<"A", "B", "C">>

\* the record parsed of the line ABC,x,25.00,10 under today's header
RecordWithPrice(x) ==
    (ColScripName :> TextABC) @@ (ColClosePrice :> x)
        @@ (ColTotalTurnover :> <<"2", "5", ".", "0", "0">>)
        @@ (ColTotalVolume :> <<"1", "0">>)

Number(int, frac) == [kind |-> "num", neg |-> FALSE, int |-> int, frac |-> frac]

\* s is digits only, at least one
IsWholeText(s) == s # << >> /\ \A k \in 1..Len(s) : s[k] \in DigitSet

\* the fields of a BSE row read from today's column names
TakenFromColumns(row) ==
    LET raw == row.raw_data
        price == RemoveCommas(raw[ColClosePrice])
        turnover == RemoveCommas(raw[ColTotalTurnover])
        volume == RemoveCommas(raw[ColTotalVolume])
    IN  /\ ColScripName \in DOMAIN raw /\ raw[ColScripName] # << >>
               => row.security_code = [kind |-> "text", text |-> raw[ColScripName]]
        /\ ColClosePrice \in DOMAIN raw /\ IsNumberText(price)
               => row.ltp = NativeValue(price, 0)
        /\ ColTotalTurnover \in DOMAIN raw /\ IsNumberText(turnover)
               => row.turnover_rs_lacs = NativeValue(turnover, 0)
        /\ ColTotalVolume \in DOMAIN raw /\ IsWholeText(volume)
               => row.no_of_trades = NativeValue(volume, 0)

\* the other optional fields of a BSE row are null
OthersAbsent(row) ==
    /\ \A f \in {"issuer_name", "maturity_date", "bond_type", "credit_rating"} :
           row[f] = [kind |-> "null", text |-> << >>]
    /\ \A f \in {"coupon_rate", "face_value"} :
           row[f] = [kind |-> "null", neg |-> FALSE, int |-> 0, frac |-> << >>]

\* C24: every BSE row, of the daily script and of the backfill, has its
\* security_code, ltp, turnover_rs_lacs and no_of_trades from the columns
\* Scrip Name, Close Price, Total Trade Turnover (Rs. Lakhs) and Total Trade
\* Volume and its other optional fields null; the file with that header and
\* the line ABC,100.50,25.00,10 gives ABC, 100.5, 25 and 10; and raw_data of
\* the row of line ABC,x,25.00,10 is the whole parsed record
C24_BseRecord ==
    \A n \in 1..Len(dbRecords) :
        LET row == dbRecords[n]
        IN  row.exchange = "BSE" =>
                /\ TakenFromColumns(row)
                /\ OthersAbsent(row)
                /\ (ColScripName \in DOMAIN row.raw_data
                      /\ row.raw_data[ColScripName] = TextABC
                      /\ \A k \in 1..Len(body) : body[k] # ",")
                       => row.raw_data = RecordWithPrice(body)
                /\ row.raw_data = RecordWithPrice(CellPrice) =>
                       /\ row.security_code = [kind |-> "text", text |-> TextABC]
                       /\ row.ltp = Number(100, <<"5">>)
                       /\ row.turnover_rs_lacs = Number(25, << >>)
                       /\ row.no_of_trades = Number(10, << >>)

\* the example file stored by the daily script
C24_Witness ==
    /\ mode = "daily"
    /\ body = CellPrice
    /\ Len(dbRecords) = 1
    /\ dbRecords[1].exchange = "BSE"
    /\ dbRecords[1].raw_data = RecordWithPrice(CellPrice)
    /\ dbRecords[1].ltp = Number(100, <<"5">>)

(***************************************************************************)
(* normalizeHeader on its own: every header text up to MaxHeaderLen over   *)
(* HeaderChars, normalized and normalized again.                           *)
(***************************************************************************)
MaxHeaderLen == 4

HeaderChars == {SP, NL, "\t", "\r", BOM, "a"}

HeaderTexts == UNION {[1..n -> HeaderChars] : n \in 0..MaxHeaderLen}

InitHeader ==
    /\ InitProcess
    /\ store = EmptyBag
    /\ body \in HeaderTexts
    /\ verdict = NoVerdict

\* headers.map(normalizeHeader)
NormalizeHeader ==
    /\ verdict.variant = "none"
    /\ verdict' = [variant |-> "header", class |-> "none", text |-> normalizeHeader(body)]
    /\ UNCHANGED <<metaVars, pc, localVars, logVars, syncVars, store, outVars, ended, body>>

\* normalizeHeader of a header that is a result of normalizeHeader
NormalizeAgain ==
    /\ verdict.variant = "header"
    /\ verdict' = [variant |-> "again", class |-> "none",
                   text |-> normalizeHeader(verdict.text)]
    /\ UNCHANGED <<metaVars, pc, localVars, logVars, syncVars, store, outVars, ended, body>>

NextHeader ==
    \/ NormalizeHeader
    \/ NormalizeAgain

SpecHeader == InitHeader /\ [][NextHeader]_vars

IsBlank(c) == c \in {" ", "\n", "\t", "\r", "BOM"}

\* no newline, no two white space characters in a row, none at either end
IsNormalHeader(s) ==
    /\ \A k \in 1..Len(s) : s[k] # "\n"
    /\ \A k \in 1..(Len(s) - 1) : ~(IsBlank(s[k]) /\ IsBlank(s[k + 1]))
    /\ s # << >> => ~IsBlank(s[1]) /\ ~IsBlank(s[Len(s)])

\* C25: the result of normalizeHeader has no newline, no run of white space
\* and no white space at its ends, and normalizeHeader leaves it as it is
C25_NormalizeHeaderIdempotent ==
    /\ [](verdict.variant \in {"header", "again"} => IsNormalHeader(verdict.text))
    /\ [][verdict.variant = "header" /\ verdict'.variant = "again"
              => verdict'.text = verdict.text]_vars

\* the header a, newline, space, a normalized twice
C25_Witness ==
    /\ body = <<"a", "\n", " ", "a">>
    /\ verdict.variant = "again"
    /\ verdict.text = <<"a", " ", "a">>

(***************************************************************************)
(* What a pipeline may change in the table.                                *)
(***************************************************************************)
\* the exchange of the pipeline at position p
ExchangeAt(p) == IF p \in {"nse_get", "nse_delete", "nse_insert"} THEN "NSE" ELSE "BSE"

\* the (trade_date, exchange) keys with rows in table t
KeysOf(t) == {<<r.trade_date, r.exchange>> : r \in DOMAIN t}

\* the last response received is a 200 with at least one data line
GotData(resps) ==
    /\ resps # << >>
    /\ resps[Len(resps)].kind # "error"
    /\ resps[Len(resps)].status = 200
    /\ DataLines(resps[Len(resps)].body) >= 1

\* C26: a delete or an insert is issued only when the last fetch of the
\* pipeline returned data and at least one row was parsed, and it names the
\* pipeline's own date and exchange, as do the rows it carries; a step that
\* receives a response leaves the table as it is; and when the table changes
\* outside the retention cleanup, it is at the delete or the insert of a
\* replace and the rows of every other key stay as they were
C26_ReplaceFrame ==
    [][/\ (dbLog' # dbLog /\ dbLog' # << >>) =>
            LET call == dbLog'[Len(dbLog')]
            IN  /\ GotData(issued')
                /\ dbRecords' # << >>
                /\ pc' \in DeletePcs \cup InsertPcs
                /\ call.trade_date = formatDateDB(targetDate')
                /\ call.exchange = ExchangeAt(pc')
                /\ \A k \in 1..Len(call.rows) :
                       /\ call.rows[k].trade_date = call.trade_date
                       /\ call.rows[k].exchange = call.exchange
       /\ pc \in RequestPcs => store' = store
       /\ (store' # store /\ pc # "cleanup") =>
            /\ pc \in DeletePcs \cup InsertPcs
            /\ \A key \in KeysOf(store) \cup KeysOf(store') :
                   key # <<formatDateDB(targetDate), ExchangeAt(pc)>> =>
                       RowsOf(store', key[1], key[2]) = RowsOf(store, key[1], key[2])]_vars

\* the NSE rows of 2026-01-28 replaced, the old rows of the other keys in place
C26_Witness ==
    /\ mode = "daily"
    /\ ended.nse.kind = "ok"
    /\ Len(dbLog) = 2
    /\ OldRow(0, "NSE") \notin DOMAIN store
    /\ OldRow(0, "BSE") \in DOMAIN store
    /\ OldRow(1, "NSE") \in DOMAIN store

(***************************************************************************)
(* The exit status of the daily run.                                       *)
(***************************************************************************)
\* the daily run has ended by itself
DailyExited == mode = "daily" /\ pc = "idle" /\ exitCode \in {"exit0", "exit1"}

SourceFailed(src) == ended[src].kind # "ok"

\* C27: a daily run that has ended has the failure status exactly when the
\* fetch or the sync of both sources failed; with one source stored it ends
\* normally, and the error of the other is in the summary sent and in the
\* error file saved (or the summary says that the file could not be saved)
C27_ExitStatus ==
    DailyExited =>
        /\ exitCode = "exit1" <=> (SourceFailed("nse") /\ SourceFailed("bse"))
        /\ \A src \in {"nse", "bse"} :
               SourceFailed(src) =>
                   /\ sent # << >>
                   /\ sent[Len(sent)].kind = "summary"
                   /\ sent[Len(sent)].errors[src] # "null"
                   /\ \/ sent[Len(sent)].unsaved
                      \/ saved # << >> /\ saved[Len(saved)][src] # "null"

\* NSE failed, BSE stored: the run ended normally and the summary names the
\* NSE error
C27_Witness ==
    /\ DailyExited
    /\ exitCode = "exit0"
    /\ SourceFailed("nse")
    /\ ended.bse.kind = "ok"
    /\ sent[Len(sent)].errors.nse # "null"

====
